---- MODULE Spec2Model ----
(***************************************************************************)
(* Model of the message triage engine: LocalMessageAnalyzer                *)
(* (src/local_analyzer.py), MessageAnalyzer (src/src/message_analyzer.py)  *)
(* and SimpleMessageAnalyzer (src/demo.py).                                *)
(*                                                                         *)
(* Texts are TLA+ strings and are processed character by character, the    *)
(* way the regular expressions and str methods of the source process them. *)
(* Fractions are integers: confidences in ConfUnit-ths, similarity scores  *)
(* in thousandths, times in whole hours.  Priority scores are the floats   *)
(* of the source, each written as one integer (section Floats).            *)
(***************************************************************************)
EXTENDS Integers, Sequences, FiniteSets, TLC

VARIABLES
    messages,        \* LocalMessageAnalyzer.messages: the message store
    word_frequency,  \* LocalMessageAnalyzer.word_frequency (a Counter)
    returned,        \* what the last public call returned
    lastcall,        \* the last public call and its arguments
    ma_messages,     \* MessageAnalyzer.messages
    ma_similarity,   \* what the embedding model and fuzz.ratio answer for two texts
    fn_in,           \* input of the pure function under study
    fn_out,          \* its result
    workers,         \* where each thread running process_message stands
    processed_messages,  \* SlackAnalyticsDashboard.processed_messages
    self_categories  \* LocalMessageAnalyzer.categories: the configuration

vars == <<messages, word_frequency, returned, lastcall, ma_messages, ma_similarity,
          fn_in, fn_out, workers, processed_messages, self_categories>>

(***************************************************************************)
(* Characters and strings                                                  *)
(***************************************************************************)
Ch(s, i) == SubSeq(s, i, i)

CharsOf(s) == {Ch(s, i) : i \in 1..Len(s)}

LowerLetters == "abcdefghijklmnopqrstuvwxyz"
UpperLetters == "ABCDEFGHIJKLMNOPQRSTUVWXYZ"
Digits == "0123456789"

\* U+000B, the vertical tab, and U+001C .. U+001F, the four separators, each
\* written as itself
VerticalTab == ""
Separators == ""

\* \s of the regular expressions and the separators of str.split(), among ASCII:
\* the space, tab, newline, vertical tab, form feed, carriage return and the four
\* separators (the whitespace beyond ASCII is not part of the texts)
SpaceChars == {" ", "\t", "\n", "\r", "\f", VerticalTab} \cup CharsOf(Separators)
\* String literals hold ASCII only.  Two code points beyond ASCII are part of the
\* texts, each written as a control character that no text otherwise contains:
\* U+0130, LATIN CAPITAL LETTER I WITH DOT ABOVE (written as the character SUB),
\* a letter whose str.lower() is the two code points 'i' and U+0307, and
\* U+0307, COMBINING DOT ABOVE (written as the character DEL), which is neither
\* a \w nor a \s character.
DottedI == ""
DotAbove == ""

\* [a-zA-Z0-9_]
AsciiWordChars ==
    CharsOf(LowerLetters) \cup CharsOf(UpperLetters) \cup CharsOf(Digits) \cup {"_"}
\* \w of a str pattern: the alphanumeric code points and the underscore
WordChars == AsciiWordChars \cup {DottedI}
\* [A-Z0-9] of the mention patterns
MentionChars == CharsOf(UpperLetters) \cup CharsOf(Digits)
\* [a-zA-Z0-9_-] of the emoji pattern
EmojiChars == AsciiWordChars \cup {"-"}
\* what [^\w\s?!.] leaves in place
KeptChars == WordChars \cup SpaceChars \cup {"?", "!", "."}
UpperChars == CharsOf(UpperLetters)

Min(a, b) == IF a < b THEN a ELSE b

\* the substring s[i..j], empty when the bounds leave the string
Slice(s, i, j) == IF i >= 1 /\ j <= Len(s) /\ i <= j THEN SubSeq(s, i, j) ELSE ""

\* str.__contains__: k in s
Contains(s, k) == \E i \in 1..(Len(s) - Len(k) + 1) : SubSeq(s, i, i + Len(k) - 1) = k

\* str.find from position i (1-based): the first occurrence at or after i, 0 if none
FindFrom(s, k, i) ==
    LET hits == {p \in i..(Len(s) - Len(k) + 1) : SubSeq(s, p, p + Len(k) - 1) = k}
    IN  IF hits = {} THEN 0 ELSE CHOOSE p \in hits : \A q \in hits : p <= q

\* str.count of a single character
CountChar(s, c) == Cardinality({i \in 1..Len(s) : Ch(s, i) = c})

\* the last index of the maximal run of characters of class cls that starts at i
\* (i - 1 when s[i] is not in the class)
RECURSIVE RunEnd(_, _, _)
RunEnd(s, i, cls) ==
    IF i <= Len(s) /\ Ch(s, i) \in cls THEN RunEnd(s, i + 1, cls) ELSE i - 1

\* the same for the characters outside cls
RECURSIVE RunEndNot(_, _, _)
RunEndNot(s, i, cls) ==
    IF i <= Len(s) /\ Ch(s, i) \notin cls THEN RunEndNot(s, i + 1, cls) ELSE i - 1

\* str.lower of one character
LowerChar(c) ==
    IF c = DottedI THEN "i" \o DotAbove
    ELSE IF c \in UpperChars
    THEN Ch(LowerLetters, CHOOSE i \in 1..Len(UpperLetters) : Ch(UpperLetters, i) = c)
    ELSE c

\* the character re.sub(r'[^\w\s?!.]', ' ', s) leaves in the place of c
CleanChar(c) == IF c \in KeptChars THEN c ELSE " "

\* the control characters U+0001 .. U+0008, U+000E .. U+0019 and U+001B: neither
\* \w nor \s
OtherControls == ""

\* the characters of the texts: every character a string here can hold.  Each
\* has a numeral of its own in an identifier made by hash()
HashChars ==
    " !\"#$%&'()*+,-./0123456789:;<=>?@" \o UpperLetters \o "[\\]^_" \o LowerLetters
    \o "{|}~" \o DottedI \o DotAbove \o "\t\n\r\f" \o VerticalTab \o Separators
    \o OtherControls

\* the three digits that stand for the character c: its place in HashChars
HashNumerals ==
    [c \in CharsOf(HashChars) |->
        LET n == CHOOSE i \in 1..Len(HashChars) : Ch(HashChars, i) = c
        IN  Ch(Digits, (n \div 100) + 1) \o Ch(Digits, ((n \div 10) % 10) + 1)
            \o Ch(Digits, (n % 10) + 1)]

HashDigits(c) == HashNumerals[c]

\* one character under the mapping f: "lower" is str.lower, "clean" the
\* substitution, "hash" the digits of the character
MapChar(f, c) ==
    IF f = "lower" THEN LowerChar(c)
    ELSE IF f = "hash" THEN HashDigits(c)
    ELSE CleanChar(c)

\* the mapping f applied to each character of s[i..j], the results concatenated
\* (the range is halved, so that long texts do not nest deeply)
RECURSIVE MapChars(_, _, _, _)
MapChars(f, s, i, j) ==
    IF i > j THEN ""
    ELSE IF i = j THEN MapChar(f, Ch(s, i))
    ELSE MapChars(f, s, i, (i + j) \div 2) \o MapChars(f, s, (i + j) \div 2 + 1, j)

\* str.lower
Lower(s) == MapChars("lower", s, 1, Len(s))

\* http[s]?://\S+
UrlEnd(s, i) ==
    LET after == IF Slice(s, i, i + 6) = "http://" THEN i + 7
                 ELSE IF Slice(s, i, i + 7) = "https://" THEN i + 8
                 ELSE 0
        e == RunEndNot(s, after, SpaceChars)
    IN  IF after > 0 /\ e >= after THEN e ELSE 0

\* what one round of the group of MessageAnalyzer's URL pattern matches: [a-zA-Z],
\* [0-9], [$-_@.&+] (the range from '$' to '_' and four characters inside it) and
\* [!*\\(\\),] ('!' and five characters of the range); %xx is three of them
MAUrlChars ==
    CharsOf(LowerLetters) \cup CharsOf(UpperLetters) \cup CharsOf(Digits)
    \cup CharsOf("$%&'()*+,-./:;<=>?@[\\]^_") \cup {"!"}

\* http[s]?://(?:[a-zA-Z]|[0-9]|[$-_@.&+]|[!*\\(\\),]|(?:%[0-9a-fA-F][0-9a-fA-F]))+
MAUrlEnd(s, i) ==
    LET after == IF Slice(s, i, i + 6) = "http://" THEN i + 7
                 ELSE IF Slice(s, i, i + 7) = "https://" THEN i + 8
                 ELSE 0
        e == RunEnd(s, after, MAUrlChars)
    IN  IF after > 0 /\ e >= after THEN e ELSE 0

\* <@[A-Z0-9]+>
UserMentionEnd(s, i) ==
    LET e == RunEnd(s, i + 2, MentionChars)
    IN  IF Slice(s, i, i + 1) = "<@" /\ e >= i + 2 /\ Slice(s, e + 1, e + 1) = ">"
        THEN e + 1 ELSE 0

\* <#[A-Z0-9]+\|[^>]+>
ChannelMentionEnd(s, i) ==
    LET e == RunEnd(s, i + 2, MentionChars)
        g == FindFrom(s, ">", e + 2)
    IN  IF Slice(s, i, i + 1) = "<#" /\ e >= i + 2 /\ Slice(s, e + 1, e + 1) = "|"
           /\ g >= e + 3
        THEN g ELSE 0

\* :[a-zA-Z0-9_-]+:
EmojiEnd(s, i) ==
    LET e == RunEnd(s, i + 1, EmojiChars)
    IN  IF Ch(s, i) = ":" /\ e >= i + 1 /\ Slice(s, e + 1, e + 1) = ":"
        THEN e + 1 ELSE 0

\* where the match of the pattern re at position i of s ends (0: no match at i)
MatchEnd(re, s, i) ==
    CASE re = "url" -> UrlEnd(s, i)
      [] re = "ma_url" -> MAUrlEnd(s, i)
      [] re = "user" -> UserMentionEnd(s, i)
      [] re = "channel" -> ChannelMentionEnd(s, i)
      [] re = "emoji" -> EmojiEnd(s, i)

\* re.sub(re, '', s) from position i on: leftmost matches, scanned left to right
\* (p is the start of the next match)
RECURSIVE RemoveMatches(_, _, _)
RECURSIVE RemoveFrom(_, _, _, _)
RemoveFrom(re, s, i, p) ==
    Slice(s, i, p - 1) \o RemoveMatches(re, s, MatchEnd(re, s, p) + 1)

RemoveMatches(re, s, i) ==
    IF \A p \in i..Len(s) : MatchEnd(re, s, p) = 0 THEN Slice(s, i, Len(s))
    ELSE RemoveFrom(re, s, i, CHOOSE q \in i..Len(s) :
                                  /\ MatchEnd(re, s, q) > 0
                                  /\ \A r \in i..(q - 1) : MatchEnd(re, s, r) = 0)

\* re.sub(r'[^\w\s?!.]', ' ', s)
Clean(s) == MapChars("clean", s, 1, Len(s))

\* str.split(): the maximal runs of non-space characters, in order
RECURSIVE SplitFrom(_, _)
SplitFrom(s, i) ==
    LET b == RunEnd(s, i, SpaceChars) + 1
        e == RunEndNot(s, b, SpaceChars)
    IN  IF b > Len(s) THEN <<>> ELSE <<SubSeq(s, b, e)>> \o SplitFrom(s, e + 1)
Split(s) == SplitFrom(s, 1)

\* ' '.join(words)
RECURSIVE JoinFrom(_, _)
JoinFrom(ws, i) ==
    IF i > Len(ws) THEN ""
    ELSE IF i = Len(ws) THEN ws[i]
    ELSE ws[i] \o " " \o JoinFrom(ws, i + 1)
Join(ws) == JoinFrom(ws, 1)

\* preprocess_text: the six substitutions in the order of the source, then lower()
preprocess_text(text) ==
    Lower(Join(Split(Clean(
        RemoveMatches("emoji",
            RemoveMatches("channel",
                RemoveMatches("user",
                    RemoveMatches("url", text, 1), 1), 1), 1)))))

\* MessageAnalyzer.preprocess_text: the same steps with its own URL pattern
ma_preprocess_text(text) ==
    Lower(Join(Split(Clean(
        RemoveMatches("emoji",
            RemoveMatches("channel",
                RemoveMatches("user",
                    RemoveMatches("ma_url", text, 1), 1), 1), 1)))))

(***************************************************************************)
(* The texts of the stored messages.  The state machine applies the text   *)
(* functions to them again and again, so their results are kept in tables, *)
(* one entry per text of TableTexts.                                       *)
(***************************************************************************)
Text1 == "server down in prod"
Text2 == "prod server is down"
Text3 == "Server is"
StoreTexts == {Text1, Text2, Text3}
\* a text whose float score, 0.4 + 0.1 + 0.05 + 0.15, is the float next above 0.7
TierText == "need access to the repo? thanks!"

\* the texts the priority scorer is studied on
Sentence == "please look at the quarterly report before friday "
UrgentText == "production is down, URGENT!!! please help asap"
PriorityTexts == {Text1, UrgentText, "see you at lunch", "why? how? what? when?",
                  "wow!!!!!", Sentence \o Sentence \o Sentence,
                  Sentence \o Sentence \o Sentence \o Sentence \o Sentence}

TableTexts == StoreTexts \cup PriorityTexts \cup {TierText}

\* the texts of the ten sample messages of SlackAnalyticsDashboard
SampleTexts ==
    <<
       "Our production server is down! Users can't access the "
        \o "application. This is urgent!",
       "Can someone help me understand how the authentication flow "
        \o "works? I'm getting confused with the OAuth implementation.",
       "I found a bug in the user registration form. When users enter "
        \o "special characters in their name, the form crashes with a 500 "
        \o "error.",
       "Feature request: Can we add a dark mode toggle to the user "
        \o "settings? Many users have been asking for this.",
       "The CI/CD pipeline failed again. It seems like there's an "
        \o "issue with the Docker build process. Can someone take a look?",
       "I need access to the staging environment database. Can "
        \o "someone grant me the necessary permissions?",
       "FYI: We'll be performing scheduled maintenance on Sunday "
        \o "between 2-4 AM. The application will be temporarily "
        \o "unavailable.",
       "Another authentication issue here. Users are getting logged "
        \o "out randomly. This might be related to the session timeout "
        \o "configuration.",
       "How do we handle user data export requests according to GDPR? "
        \o "Do we have a standard process for this?",
       "The new API endpoint is ready for testing. Can someone from "
        \o "QA please review the documentation and test cases?"
    >>

\* the texts MessageAnalyzer is run on
MATableTexts == TableTexts \cup {SampleTexts[i] : i \in 1..Len(SampleTexts)}

\* a table is the set of its <<text, result>> pairs
Lookup(table, text) == (CHOOSE p \in table : p[1] = text)[2]

PreprocessTable == {<<t, preprocess_text(t)>> : t \in TableTexts}
Preprocessed(text) == Lookup(PreprocessTable, text)

MAPreprocessTable == {<<t, ma_preprocess_text(t)>> : t \in MATableTexts}
MAPreprocessed(text) == Lookup(MAPreprocessTable, text)

(***************************************************************************)
(* Category rule sets.  A sequence keeps the insertion order of the dict.  *)
(* A pattern lit1.*lit2.*...litn is the sequence of its literals; atEnd    *)
(* marks the one anchored pattern, \?$ .  priority_boost is in hundredths. *)
(***************************************************************************)
Re(lits) == [lits |-> lits, atEnd |-> FALSE]
ReEnd(lit) == [lits |-> <<lit>>, atEnd |-> TRUE]

LocalCategories == <<
    [name |-> "bug_report",
     keywords |-> <<"bug", "error", "issue", "problem", "broken", "not working",
                    "crash", "fail", "exception", "500", "404">>,
     patterns |-> <<Re(<<"error", "code">>), Re(<<"exception">>), Re(<<"stack trace">>),
                    Re(<<"500", "error">>), Re(<<"404", "error">>), Re(<<"not", "work">>)>>,
     priority_boost |-> 30],
    [name |-> "feature_request",
     keywords |-> <<"feature", "enhancement", "improve", "add", "new", "request",
                    "would like", "could we", "suggestion">>,
     patterns |-> <<Re(<<"can", "we", "add">>), Re(<<"would", "be", "nice">>),
                    Re(<<"feature", "request">>), Re(<<"enhancement">>)>>,
     priority_boost |-> 20],
    [name |-> "question",
     keywords |-> <<"how", "what", "where", "when", "why", "help", "question",
                    "explain", "understand">>,
     patterns |-> <<ReEnd("?"), Re(<<"how", "to">>), Re(<<"what", "is">>),
                    Re(<<"can", "someone">>), Re(<<"help", "me">>)>>,
     priority_boost |-> 10],
    [name |-> "urgent",
     keywords |-> <<"urgent", "asap", "emergency", "critical", "down", "outage",
                    "production", "immediately">>,
     patterns |-> <<Re(<<"urgent", "help">>), Re(<<"production", "down">>),
                    Re(<<"critical", "issue">>), Re(<<"emergency">>)>>,
     priority_boost |-> 80],
    [name |-> "deployment",
     keywords |-> <<"deploy", "release", "push", "merge", "build", "ci/cd",
                    "pipeline", "staging">>,
     patterns |-> <<Re(<<"deploy", "to">>), Re(<<"release", "notes">>),
                    Re(<<"build", "failed">>), Re(<<"pipeline">>)>>,
     priority_boost |-> 30],
    [name |-> "access_request",
     keywords |-> <<"access", "permission", "login", "password", "account",
                    "credential", "auth">>,
     patterns |-> <<Re(<<"need", "access">>), Re(<<"can", "t", "login">>),
                    Re(<<"permission", "denied">>), Re(<<"access", "to">>)>>,
     priority_boost |-> 40],
    [name |-> "general",
     keywords |-> <<"update", "info", "fyi", "notice", "announcement", "heads up">>,
     patterns |-> <<Re(<<"fyi">>), Re(<<"heads", "up">>),
                    Re(<<"just", "to", "let", "you", "know">>), Re(<<"update">>)>>,
     priority_boost |-> 0] >>

MACategories == <<
    [name |-> "bug_report",
     keywords |-> <<"bug", "error", "issue", "problem", "broken", "not working",
                    "crash", "fail">>,
     patterns |-> <<Re(<<"error", "code">>), Re(<<"exception">>), Re(<<"stack trace">>),
                    Re(<<"500", "error">>), Re(<<"404", "error">>)>>],
    [name |-> "feature_request",
     keywords |-> <<"feature", "enhancement", "improve", "add", "new", "request",
                    "would like", "could we">>,
     patterns |-> <<Re(<<"can", "we", "add">>), Re(<<"would", "be", "nice">>),
                    Re(<<"feature", "request">>)>>],
    [name |-> "question",
     keywords |-> <<"how", "what", "where", "when", "why", "help", "question", "?">>,
     patterns |-> <<ReEnd("?"), Re(<<"how", "to">>), Re(<<"what", "is">>),
                    Re(<<"can", "someone">>)>>],
    [name |-> "urgent",
     keywords |-> <<"urgent", "asap", "emergency", "critical", "down", "outage",
                    "production">>,
     patterns |-> <<Re(<<"urgent", "help">>), Re(<<"production", "down">>),
                    Re(<<"critical", "issue">>)>>],
    [name |-> "deployment",
     keywords |-> <<"deploy", "release", "push", "merge", "build", "ci/cd", "pipeline">>,
     patterns |-> <<Re(<<"deploy", "to">>), Re(<<"release", "notes">>),
                    Re(<<"build", "failed">>)>>],
    [name |-> "access_request",
     keywords |-> <<"access", "permission", "login", "password", "account", "credential">>,
     patterns |-> <<Re(<<"need", "access">>), Re(<<"can", "t", "login">>),
                    Re(<<"permission", "denied">>)>>],
    [name |-> "general",
     keywords |-> <<"update", "info", "fyi", "notice", "announcement">>,
     patterns |-> <<Re(<<"fyi">>), Re(<<"heads", "up">>),
                    Re(<<"just", "to", "let", "you", "know">>)>>] >>

SimpleCategories == <<
    [name |-> "bug_report",
     keywords |-> <<"bug", "error", "issue", "problem", "broken", "not working",
                    "crash", "fail">>,
     patterns |-> <<>>],
    [name |-> "feature_request",
     keywords |-> <<"feature", "enhancement", "improve", "add", "new", "request",
                    "would like">>,
     patterns |-> <<>>],
    [name |-> "question",
     keywords |-> <<"how", "what", "where", "when", "why", "help", "question", "?">>,
     patterns |-> <<>>],
    [name |-> "urgent",
     keywords |-> <<"urgent", "asap", "emergency", "critical", "down", "outage",
                    "production">>,
     patterns |-> <<>>],
    [name |-> "general",
     keywords |-> <<"update", "info", "fyi", "notice">>,
     patterns |-> <<>>] >>

(***************************************************************************)
(* Categorizer                                                             *)
(***************************************************************************)
\* re.search of lits[k] .* lits[k+1] .* ... in s at or after position from
RECURSIVE MatchLits(_, _, _, _)
MatchLits(s, lits, k, from) ==
    IF k > Len(lits) THEN TRUE
    ELSE LET p == FindFrom(s, lits[k], from)
         IN  p > 0 /\ MatchLits(s, lits, k + 1, p + Len(lits[k]))

\* re.search(pattern, s)
ReSearch(pat, s) ==
    IF pat.atEnd
    THEN Len(s) >= Len(pat.lits[1])
         /\ SubSeq(s, Len(s) - Len(pat.lits[1]) + 1, Len(s)) = pat.lits[1]
    ELSE MatchLits(s, pat.lits, 1, 1)

\* the inner loops of categorize_message: +1 per keyword found, +2 per pattern found
CategoryScore(config, ptext) ==
    Cardinality({i \in 1..Len(config.keywords) : Contains(ptext, Lower(config.keywords[i]))})
    + 2 * Cardinality({i \in 1..Len(config.patterns) : ReSearch(config.patterns[i], ptext)})

\* category_scores, in the order of the configuration
CategoryScores(cats, ptext) == [i \in 1..Len(cats) |-> CategoryScore(cats[i], ptext)]

\* max(category_scores, key=category_scores.get): the first key, in insertion
\* order, that carries the largest score
MaxKeyLast(scores) ==
    CHOOSE i \in DOMAIN scores :
        /\ \A j \in DOMAIN scores : scores[j] <= scores[i]
        /\ \A j \in DOMAIN scores : j > i => scores[j] < scores[i]

MaxKey(scores) ==
    CHOOSE i \in DOMAIN scores :
        /\ \A j \in DOMAIN scores : scores[j] <= scores[i]
        /\ \A j \in DOMAIN scores : j < i => scores[j] < scores[i]

\* Confidences are in ConfUnit-ths, so that score/5.0 and score/3.0 are both exact;
\* best_score is in tenths (the fallback sets it to 0.1).
ConfUnit == 150

\* the tail of categorize_message on the scores of the categories: the best
\* category, the fallback, then min(best_score / divisor, 1.0)
ClassifyScores(cats, scores, divisor) ==
    LET best == MaxKey(scores)
        best_category == IF scores[best] = 0 THEN "general" ELSE cats[best].name
        best_score10 == IF scores[best] = 0 THEN 1 ELSE 10 * scores[best]
    IN  [category |-> best_category,
         confidence |-> Min((best_score10 * ConfUnit) \div (10 * divisor), ConfUnit),
         scores |-> scores]

\* categorize_message on the preprocessed text: the scoring loop, then the tail
Classify(cats, ptext, divisor) ==
    ClassifyScores(cats, CategoryScores(cats, ptext), divisor)

\* the categorizer normalizing the confidence by 3.0 instead of 5.0
categorize_message_by3(text) == Classify(LocalCategories, preprocess_text(text), 3)

\* LocalMessageAnalyzer.categorize_message
categorize_message(text) == Classify(LocalCategories, preprocess_text(text), 5)

CategorizeTable == {<<t, categorize_message(t)>> : t \in TableTexts}
Categorized(text) == Lookup(CategorizeTable, text)

\* MessageAnalyzer.categorize_message
ma_categorize_message(text) == Classify(MACategories, ma_preprocess_text(text), 5)

MACategorizeTable == {<<t, ma_categorize_message(t)>> : t \in MATableTexts}
MACategorized(text) == Lookup(MACategorizeTable, text)

\* SimpleMessageAnalyzer.categorize_message (no preprocessing, only text.lower())
simple_categorize_message(text) == Classify(SimpleCategories, Lower(text), 3)

(***************************************************************************)
(* Optional values: <<>> is None (or a missing key), <<v>> is the value v. *)
(***************************************************************************)
None == <<>>
Some(v) == <<v>>
IsNone(o) == o = <<>>
Val(o) == o[1]

\* the clock hour in which the modelled calls run: datetime.now()
Now == 100

(***************************************************************************)
(* Floats.  The scores are Python floats (IEEE 754 doubles), and the sums   *)
(* of the source are float sums: 0.4 + 0.1 + 0.05 + 0.15 is not 0.7 but the *)
(* next float above it.  A float x is written as the integer                *)
(*     c * FScale + d     where     x = (c + d / 2^60) / 100  exactly,      *)
(* c the hundredth nearest to x and d what x has beyond it, in units of     *)
(* 2^-60 hundredths.  The order of these integers is the order of the       *)
(* floats, 0 is 0.0, and FLit(c) is the float of the decimal literal c/100. *)
(* The floats from 2^-8 up to 16 are covered: each is a multiple of 2^-60.  *)
(***************************************************************************)
FScale == 1000000

\* the hundredth nearest to the float f, and what f has beyond it
FHundredths(f) == (f + FScale \div 2) \div FScale
FExcess(f) == f - FHundredths(f) * FScale

\* the exponents E of the covered floats, 2^E <= x < 2^(E+1)
FExponents == -8..3

\* whether (c + d / 2^60) / 100 is at least 2^E
FAtLeastPow2(c, d, E) ==
    IF E >= 0 THEN c > 100 * 2^E \/ (c = 100 * 2^E /\ d >= 0)
    ELSE c * 2^(-E) > 100 \/ (c * 2^(-E) = 100 /\ d >= 0)

\* the spacing of the floats of exponent E, in units of 2^-60 hundredths
\* (a double has 52 fraction bits)
FUlp(E) == 100 * 2^(8 + E)

\* 2^k modulo m
RECURSIVE Pow2Mod(_, _)
Pow2Mod(k, m) == IF k = 0 THEN 1 % m ELSE (2 * Pow2Mod(k - 1, m)) % m

\* 2^60 modulo twice the spacing, for each exponent
FUnitMod == [E \in FExponents |-> Pow2Mod(60, 2 * FUlp(E))]

\* the float nearest to the real number (c + d / 2^60) / 100, ties to the even
\* mantissa: what one float operation returns for its exact result
FRound(c, d) ==
    IF c = 0 /\ d = 0 THEN 0
    ELSE LET E == CHOOSE e \in FExponents :
                      FAtLeastPow2(c, d, e) /\ ~FAtLeastPow2(c, d, e + 1)
             ulp == FUlp(E)
             \* the exact result modulo two spacings, made non-negative
             r2 == (((c * FUnitMod[E] + d) % (2 * ulp)) + 2 * ulp) % (2 * ulp)
             r == r2 % ulp
             odd == r2 >= ulp
         IN  c * FScale + d
             + (IF 2 * r < ulp \/ (2 * r = ulp /\ ~odd) THEN -r ELSE ulp - r)

\* the float of the decimal literal c/100 (those up to 1.00 are kept in a table)
FLits == [c \in 0..100 |-> FRound(c, 0)]
FLit(c) == IF c \in DOMAIN FLits THEN FLits[c] ELSE FRound(c, 0)

\* a + b and n * a (n an int) on floats; x + 0.0 is x
FAdd(a, b) ==
    IF a = 0 THEN b
    ELSE IF b = 0 THEN a
    ELSE FRound(FHundredths(a) + FHundredths(b), FExcess(a) + FExcess(b))
FTimes(n, a) == FRound(n * FHundredths(a), n * FExcess(a))

\* the floats of terms added one after the other to acc, from term i on; adding
\* 0.0 leaves a float as it is, so a step the source skips is a term of 0
RECURSIVE FSumFrom(_, _, _)
FSumFrom(terms, i, acc) ==
    IF i > Len(terms) THEN acc ELSE FSumFrom(terms, i + 1, FAdd(acc, terms[i]))

FSum(terms) == FSumFrom(terms, 1, 0)

(***************************************************************************)
(* Priority Scorer (scores are floats; literals are given in hundredths)   *)
(***************************************************************************)
UrgentKeywords == <<"urgent", "asap", "emergency", "critical", "production", "down",
                    "outage", "immediately">>

\* a configuration in which no category carries a priority boost
PriorityBoostNone(category) == 0

\* self.categories.get(category, {}).get('priority_boost', 0.0)
PriorityBoost(category) ==
    IF \E i \in 1..Len(LocalCategories) : LocalCategories[i].name = category
    THEN FLit(LocalCategories[CHOOSE i \in 1..Len(LocalCategories) :
                                  LocalCategories[i].name = category].priority_boost)
    ELSE 0

\* the signals of LocalMessageAnalyzer.calculate_priority_score on the
\* preprocessed text t, added to the score in the order of the source.
\* timestamp: None or Some(hour); reactions: None or Some(list).
PrioritySignals(t, category, timestamp, reactions) ==
    LET urgency == IF \E i \in 1..Len(UrgentKeywords) : Contains(t, UrgentKeywords[i])
                   THEN FLit(20) ELSE 0
        questions == Min(FTimes(CountChar(t, "?"), FLit(10)), FLit(30))
        exclamations == Min(FTimes(CountChar(t, "!"), FLit(5)), FLit(20))
        length == IF Len(t) > 100 THEN FLit(10) ELSE IF Len(t) > 200 THEN FLit(20) ELSE 0
        hours_old == IF IsNone(timestamp) THEN 0 ELSE Now - Val(timestamp)
        recency == IF IsNone(timestamp) THEN 0
                   ELSE IF hours_old < 1 THEN FLit(15)
                   ELSE IF hours_old < 6 THEN FLit(10)
                   ELSE IF hours_old < 24 THEN FLit(5)
                   ELSE 0
        reacts == IF ~IsNone(reactions) /\ Len(Val(reactions)) > 1
                  THEN Min(FTimes(Len(Val(reactions)), FLit(5)), FLit(20)) ELSE 0
    IN  FSum(<<PriorityBoost(category), urgency, questions, exclamations, length,
               recency, reacts>>)

\* the sum with the urgency increment added for every urgent keyword found
PrioritySumPerKeyword(text, category, timestamp, reactions) ==
    FAdd(PrioritySignals(Preprocessed(text), category, timestamp, reactions),
         FTimes(Cardinality({i \in 1..Len(UrgentKeywords) :
                                Contains(Preprocessed(text), UrgentKeywords[i])
                                /\ \E j \in 1..(i - 1) :
                                       Contains(Preprocessed(text), UrgentKeywords[j])}),
                FLit(20)))

\* the score of calculate_priority_score before the final cap
PrioritySum(text, category, timestamp, reactions) ==
    PrioritySignals(Preprocessed(text), category, timestamp, reactions)

\* the same sum returned without the final min(score, 1.0)
calculate_priority_score_uncapped(text, category, timestamp, reactions) ==
    PrioritySum(text, category, timestamp, reactions)

\* LocalMessageAnalyzer.calculate_priority_score
calculate_priority_score(text, category, timestamp, reactions) ==
    Min(PrioritySum(text, category, timestamp, reactions), FLit(100))

(***************************************************************************)
(* Priority scoring of MessageAnalyzer and SimpleMessageAnalyzer           *)
(***************************************************************************)
MAUrgentKeywords == <<"urgent", "asap", "emergency", "critical", "production", "down",
                      "outage">>

\* the signals of MessageAnalyzer.calculate_priority_score on the preprocessed
\* text t, added in the order of the source (0.3 once for each urgent keyword
\* found), and capped
MAPrioritySignals(t, category, timestamp, reactions) ==
    LET urgency == [i \in 1..Len(MAUrgentKeywords) |->
                       IF Contains(t, MAUrgentKeywords[i]) THEN FLit(30) ELSE 0]
        questions == FTimes(CountChar(t, "?"), FLit(10))
        length == IF Len(t) > 100 THEN FLit(20) ELSE 0
        hours_old == Now - timestamp
        recency == IF hours_old < 1 THEN FLit(20)
                   ELSE IF hours_old < 24 THEN FLit(10) ELSE 0
        reacts == IF Len(reactions) > 2 THEN FLit(20) ELSE 0
        bonus == IF category \in {"urgent", "bug_report"} THEN FLit(40)
                 ELSE IF category \in {"feature_request", "access_request"} THEN FLit(20)
                 ELSE 0
    IN  Min(FSum(urgency \o <<questions, length, recency, reacts, bonus>>), FLit(100))

\* MessageAnalyzer.calculate_priority_score
ma_calculate_priority_score(text, category, timestamp, reactions) ==
    MAPrioritySignals(MAPreprocessed(text), category, timestamp, reactions)

\* MessageAnalyzer.calculate_priority_score on a message whose timestamp and
\* reactions may be None: `datetime.now() - message.timestamp` (line 161) raises a
\* TypeError for a timestamp of None; reactions of None count as no reactions
MAScoreOutcome(text, category, timestamp, reactions) ==
    IF IsNone(timestamp) THEN [raised |-> TRUE, value |-> 0]
    ELSE [raised |-> FALSE,
          value |-> ma_calculate_priority_score(text, category, Val(timestamp),
                        IF IsNone(reactions) THEN <<>> ELSE Val(reactions))]

SimpleUrgentWords == <<"urgent", "asap", "critical", "production", "down">>

\* SimpleMessageAnalyzer.calculate_priority on text.lower(), called t here
SimplePrioritySignals(t, category) ==
    LET urgency == [i \in 1..Len(SimpleUrgentWords) |->
                       IF Contains(t, SimpleUrgentWords[i]) THEN FLit(30) ELSE 0]
        questions == FTimes(CountChar(t, "?"), FLit(10))
        bonus == IF category = "urgent" THEN FLit(50)
                 ELSE IF category = "bug_report" THEN FLit(30) ELSE 0
    IN  Min(FSum(urgency \o <<questions, bonus>>), FLit(100))

\* SimpleMessageAnalyzer.calculate_priority
simple_calculate_priority(text, category) == SimplePrioritySignals(Lower(text), category)

(***************************************************************************)
(* Similarity Engine of LocalMessageAnalyzer                               *)
(***************************************************************************)
\* set(self.preprocess_text(text).split())
WordList(text) == Split(Preprocessed(text))
Range(seq) == {seq[i] : i \in 1..Len(seq)}
WordSetOf(text) == Range(WordList(text))
WordSetTable == {<<t, WordSetOf(t)>> : t \in TableTexts}
WordSet(text) == Lookup(WordSetTable, text)

\* simple_similarity dividing by the first text's word count instead of the union
simple_similarity_by_first(text1, text2) ==
    IF WordSet(text1) = {} \/ WordSet(text2) = {} THEN [num |-> 0, den |-> 1]
    ELSE [num |-> Cardinality(WordSet(text1) \cap WordSet(text2)),
          den |-> Cardinality(WordSet(text1))]

\* lines 182-192: the exact fraction intersection / union of two word sets
\* (0 / 1 for the early returns of 0.0)
Jaccard(words1, words2) ==
    IF words1 = {} \/ words2 = {} THEN [num |-> 0, den |-> 1]
    ELSE [num |-> Cardinality(words1 \cap words2),
          den |-> Cardinality(words1 \cup words2)]

\* LocalMessageAnalyzer.simple_similarity
simple_similarity(text1, text2) == Jaccard(WordSet(text1), WordSet(text2))

\* the t with num * 2^t >= den > num * 2^(t-1), for 0 < num <= den: the float
\* num / den lies in [2^-t, 2^(1-t)) and is a multiple of 2^-(52+t)
RECURSIVE BinadeBelowOne(_, _, _)
BinadeBelowOne(num, den, t) ==
    IF num >= den THEN t ELSE BinadeBelowOne(2 * num, den, t + 1)

\* where the float division num / den lands against the fraction itself: "exact",
\* "below" or "above".  The float is the multiple of 2^-k next to the fraction,
\* k being 52 + t, so the remainder of num * 2^k modulo den decides.
FloatOfFraction(num, den) ==
    LET k == 52 + BinadeBelowOne(num, den, 0)
        r == (num * Pow2Mod(k, den)) % den
    IN  IF r = 0 THEN "exact" ELSE IF 2 * r < den THEN "below" ELSE "above"

\* round(x, 3) of the float x.num / x.den, in thousandths.  round() is exact on
\* the float: a fraction halfway between two thousandths goes where its float
\* lies, and to the even thousandth when the float is the fraction itself
\* (5/16 gives 0.312).
Round3(x) ==
    LET twice == (2000 * x.num) \div x.den
        lower == twice \div 2
    IN  IF (2000 * x.num) % x.den # 0 \/ twice % 2 = 0
        THEN (2000 * x.num + x.den) \div (2 * x.den)
        ELSE IF FloatOfFraction(x.num, x.den) = "above" THEN lower + 1
        ELSE IF FloatOfFraction(x.num, x.den) = "below" THEN lower
        ELSE IF lower % 2 = 0 THEN lower ELSE lower + 1

\* text[:100] + "..." if len(text) > 100 else text
TextPreview(text) == IF Len(text) > 100 THEN SubSeq(text, 1, 100) \o "..." ELSE text

\* list.sort(key=score, reverse=True): stable, equal scores keep their order.
\* Insert e behind every element whose score is not smaller.
\* an insertion that puts e in front of the elements of equal score
RECURSIVE InsertDescBeforeTies(_, _)
InsertDescBeforeTies(sorted, e) ==
    IF sorted = <<>> THEN <<e>>
    ELSE IF Head(sorted).similarity_score > e.similarity_score
         THEN <<Head(sorted)>> \o InsertDescBeforeTies(Tail(sorted), e)
         ELSE <<e>> \o sorted

RECURSIVE InsertDesc(_, _)
InsertDesc(sorted, e) ==
    IF sorted = <<>> THEN <<e>>
    ELSE IF Head(sorted).similarity_score >= e.similarity_score
         THEN <<Head(sorted)>> \o InsertDesc(Tail(sorted), e)
         ELSE <<e>> \o sorted

RECURSIVE SortDescFrom(_, _, _)
SortDescFrom(list, i, acc) ==
    IF i > Len(list) THEN acc ELSE SortDescFrom(list, i + 1, InsertDesc(acc, list[i]))
SortDesc(list) == SortDescFrom(list, 1, <<>>)

\* list[:k] of Python, negative k included
SliceTo(list, k) ==
    IF k >= 0 THEN SubSeq(list, 1, Min(k, Len(list)))
    ELSE SubSeq(list, 1, IF Len(list) + k > 0 THEN Len(list) + k ELSE 0)

\* the loop of find_similar_tickets: one entry per stored message that has another
\* id and a similarity above the threshold, in store order.  common_words is the
\* whole intersection; key_phrases is cut from it in KeyPhraseChoices.
\* lines 208-220: the entry of one stored message whose similarity to the query
\* is sim, or nothing when sim is not above 0.2
Candidate(message, existing, sim) ==
    IF 5 * sim.num > sim.den
    THEN <<[ticket_id |-> existing.id,
            similarity_score |-> Round3(sim),
            category |-> existing.category,
            common_words |-> WordSet(message.text) \cap WordSet(existing.text),
            text_preview |-> TextPreview(existing.text)]>>
    ELSE <<>>

RECURSIVE SimilaritiesFromNoSkip(_, _, _)
SimilaritiesFromNoSkip(store, message, i) ==
    IF i > Len(store) THEN <<>>
    ELSE Candidate(message, store[i], simple_similarity(message.text, store[i].text))
         \o SimilaritiesFromNoSkip(store, message, i + 1)

RECURSIVE SimilaritiesFrom(_, _, _)
SimilaritiesFrom(store, message, i) ==
    IF i > Len(store) THEN <<>>
    ELSE (IF store[i].id = message.id THEN <<>>
          ELSE Candidate(message, store[i],
                         simple_similarity(message.text, store[i].text)))
         \o SimilaritiesFrom(store, message, i + 1)

\* similarities after the sort: the full ranked candidate list
RankedSimilarities(store, message) == SortDesc(SimilaritiesFrom(store, message, 1))

\* find_similar_tickets without its early return and without the id test
find_similar_tickets_unguarded(store, message, top_k) ==
    SliceTo(SortDesc(SimilaritiesFromNoSkip(store, message, 1)), top_k)

\* LocalMessageAnalyzer.find_similar_tickets, key phrases still uncut
find_similar_tickets(store, message, top_k) ==
    IF Len(store) <= 1 THEN <<>>
    ELSE SliceTo(RankedSimilarities(store, message), top_k)

\* list(words1.intersection(words2))[:3]: the first three elements of a set in
\* its iteration order, which the string hashes decide: any three of them
KeyPhraseChoices(common) ==
    IF Cardinality(common) <= 3 THEN {common}
    ELSE {kp \in SUBSET common : Cardinality(kp) = 3}

\* every list find_similar_tickets can return, key_phrases cut
RECURSIVE CutKeyPhrases(_)
CutKeyPhrases(list) ==
    IF list = <<>> THEN {<<>>}
    ELSE LET e == Head(list)
         IN  {<<[ticket_id |-> e.ticket_id,
                 similarity_score |-> e.similarity_score,
                 category |-> e.category,
                 key_phrases |-> kp,
                 text_preview |-> e.text_preview]>> \o rest :
                 kp \in KeyPhraseChoices(e.common_words), rest \in CutKeyPhrases(Tail(list))}

SimilarTicketResults(store, message, top_k) ==
    CutKeyPhrases(find_similar_tickets(store, message, top_k))

(***************************************************************************)
(* Ingestion: LocalMessageAnalyzer.process_message, batch_process_messages *)
(*                                                                         *)
(* An input record is [id, text, ts, reactions].  id: None (key missing)   *)
(* or Some(string).  text: Some(string), or None for a record whose text   *)
(* is null.  ts: [kind, val] with kind "missing", "str" (a numeric string  *)
(* denoting hour val), "badstr" (a string float() rejects) or "num" (the   *)
(* number val).  reactions: None (key missing) or Some(list).              *)
(* The fields user, channel and thread_ts are copied through and are left  *)
(* out.                                                                    *)
(***************************************************************************)
DefaultTopK == 5

\* str(hash(text)): a decimal numeral, the same for equal texts.  Which numeral
\* a text gets is drawn anew in every process (hash randomization); here it is
\* the negative numeral that a leading 1 and the digits of the characters spell,
\* different for different texts.  The hash of the empty text is 0 in every
\* process.  As in the source, an explicit id equals the identifier of a text
\* only when it is that very numeral.
HashId(text) ==
    IF text = "" THEN "0" ELSE "-1" \o MapChars("hash", text, 1, Len(text))

\* lines 229-236: the timestamp a record gets
ParseTimestamp(ts) ==
    IF ts.kind = "str" THEN ts.val   \* datetime.fromtimestamp(float(ts))
    ELSE Now                         \* except: / elif not isinstance(.., datetime):

\* process_message raises (a TypeError out of re.sub) when the text is no string
Raises(rec) == IsNone(rec.text)

\* lines 238-253: the SlackMessage with its category set and its priority scored
ScoredMessage(id, text, timestamp, reactions, category) ==
    [id |-> id,
     text |-> text,
     timestamp |-> timestamp,
     reactions |-> reactions,
     category |-> category,
     priority_score |->
         calculate_priority_score(text, category, Some(timestamp), Some(reactions))]

\* the message of a record, before the similarity search
AnalyzedMessage(rec) ==
    ScoredMessage(IF IsNone(rec.id) THEN HashId(Val(rec.text)) ELSE Val(rec.id),
                  Val(rec.text),
                  ParseTimestamp(rec.ts),
                  IF IsNone(rec.reactions) THEN <<>> ELSE Val(rec.reactions),
                  Categorized(Val(rec.text)).category)

WithSimilar(m, similar) ==
    [id |-> m.id, text |-> m.text, timestamp |-> m.timestamp, reactions |-> m.reactions,
     category |-> m.category, priority_score |-> m.priority_score,
     similar_tickets |-> similar]

\* Counter.update(words)
CounterUpdate(counter, words) ==
    LET occurrences(w) == Cardinality({i \in 1..Len(words) : words[i] = w})
        seen == {words[i] : i \in 1..Len(words)}
    IN  [w \in DOMAIN counter \cup seen |->
            (IF w \in DOMAIN counter THEN counter[w] ELSE 0) + occurrences(w)]

\* the store update that also enters the new message in the similar_tickets of
\* every stored message it matched
StoreOutcomesBackfilling(store, counter, m) ==
    {[messages |->
          Append([i \in 1..Len(store) |->
                     IF \E j \in 1..Len(similar) : similar[j].ticket_id = store[i].id
                     THEN [store[i] EXCEPT !.similar_tickets =
                              Append(@, [similar[CHOOSE j \in 1..Len(similar) :
                                                    similar[j].ticket_id = store[i].id]
                                            EXCEPT !.ticket_id = m.id,
                                                   !.category = m.category,
                                                   !.text_preview = TextPreview(m.text)])]
                     ELSE store[i]],
                 WithSimilar(m, similar)),
      word_frequency |-> CounterUpdate(counter, WordList(m.text)),
      message |-> WithSimilar(m, similar)] :
        similar \in SimilarTicketResults(store, m, DefaultTopK)}

\* the store update putting the new message in front of the stored ones
StoreOutcomesPrepending(store, counter, m) ==
    {[messages |-> <<WithSimilar(m, similar)>> \o store,
      word_frequency |-> CounterUpdate(counter, WordList(m.text)),
      message |-> WithSimilar(m, similar)] :
        similar \in SimilarTicketResults(store, m, DefaultTopK)}

\* lines 256-263: the similarity search for the message m, the append to the
\* store and the update of the word counter
StoreOutcomes(store, counter, m) ==
    {[messages |-> Append(store, WithSimilar(m, similar)),
      word_frequency |-> CounterUpdate(counter, WordList(m.text)),
      message |-> WithSimilar(m, similar)] :
        similar \in SimilarTicketResults(store, m, DefaultTopK)}

\* process_message on a record that does not raise: every state it can leave
\* (one per way the key phrases can fall), with the message it returns
ProcessOutcomes(store, counter, rec) == StoreOutcomes(store, counter, AnalyzedMessage(rec))

\* batch_process_messages stopping at the first record that raises
RECURSIVE BatchOutcomesAborting(_, _, _, _, _)
BatchOutcomesAborting(store, counter, batch, i, processed) ==
    IF i > Len(batch) \/ Raises(batch[i])
    THEN {[messages |-> store, word_frequency |-> counter, processed |-> processed]}
    ELSE UNION {BatchOutcomesAborting(o.messages, o.word_frequency, batch, i + 1,
                                      Append(processed, o.message)) :
                    o \in ProcessOutcomes(store, counter, batch[i])}

\* batch_process_messages leaving a trace of every record that raises: the word
\* "error" is counted in word_frequency
RECURSIVE BatchOutcomesCountingFailed(_, _, _, _, _)
BatchOutcomesCountingFailed(store, counter, batch, i, processed) ==
    IF i > Len(batch)
    THEN {[messages |-> store, word_frequency |-> counter, processed |-> processed]}
    ELSE IF Raises(batch[i])
    THEN BatchOutcomesCountingFailed(store, CounterUpdate(counter, <<"error">>), batch,
                                     i + 1, processed)
    ELSE UNION {BatchOutcomesCountingFailed(o.messages, o.word_frequency, batch, i + 1,
                                            Append(processed, o.message)) :
                    o \in ProcessOutcomes(store, counter, batch[i])}

\* the loop of batch_process_messages from record i on: a record that raises is
\* skipped (except Exception: continue), the others are processed in order
RECURSIVE BatchOutcomes(_, _, _, _, _)
BatchOutcomes(store, counter, batch, i, processed) ==
    IF i > Len(batch)
    THEN {[messages |-> store, word_frequency |-> counter, processed |-> processed]}
    ELSE IF Raises(batch[i])
    THEN BatchOutcomes(store, counter, batch, i + 1, processed)
    ELSE UNION {BatchOutcomes(o.messages, o.word_frequency, batch, i + 1,
                              Append(processed, o.message)) :
                    o \in ProcessOutcomes(store, counter, batch[i])}

(***************************************************************************)
(* Inputs                                                                  *)
(***************************************************************************)
MaxStore == 3
MaxBatch == 2
MaxTopK == 2

IdInputs == {None, Some("m1")}
TextInputs == {Some(t) : t \in StoreTexts} \cup {None}
OldHour == Now - 30
TsInputs == {[kind |-> "missing", val |-> 0], [kind |-> "str", val |-> OldHour],
             [kind |-> "badstr", val |-> 0], [kind |-> "num", val |-> OldHour]}

AllRecords == [id : IdInputs, text : TextInputs, ts : TsInputs, reactions : {None}]
\* records without a ts key
PlainRecords == {r \in AllRecords : r.ts.kind = "missing"}
\* records without an id key: the id is the hash of the text
HashedRecords == {r \in PlainRecords : IsNone(r.id)}
\* the records process_message is called with: every id and text without a ts
\* key, every kind of ts on one text
Records == PlainRecords \cup {r \in AllRecords : IsNone(r.id) /\ r.text = Some(Text1)}
\* the records batches are made of
BatchRecords == HashedRecords \cup {r \in PlainRecords : r.text = Some(Text2)}

RECURSIVE SeqsUpTo(_, _)
SeqsUpTo(S, n) ==
    IF n = 0 THEN {<<>>}
    ELSE LET shorter == SeqsUpTo(S, n - 1)
         IN  shorter \cup {Append(q, x) : q \in {p \in shorter : Len(p) = n - 1}, x \in S}

Batches == SeqsUpTo(BatchRecords, MaxBatch)

\* the messages find_similar_tickets is queried with: only id and text are read
QueryMessages == {[id |-> IF IsNone(i) THEN HashId(t) ELSE Val(i), text |-> t] :
                     i \in IdInputs, t \in StoreTexts}
TopKInputs == (-1)..MaxTopK

(***************************************************************************)
(* The analyzer as a state machine                                         *)
(***************************************************************************)
NoCall == [op |-> "none", args |-> <<>>]
NoResult == [raised |-> FALSE, value |-> <<>>]
NoSimilarity == [p \in {} |-> 0]
NoInput == [op |-> "none"]
NoOutput == [done |-> FALSE]
\* the threads of the host application, none of them inside process_message
WorkerIds == {"w1", "w2"}
Idle == [pc |-> "idle", message |-> <<>>, similar |-> <<>>, seen |-> 0]
NoWorkers == [w \in WorkerIds |-> Idle]

Init ==
    /\ messages = <<>>
    /\ word_frequency = <<>>
    /\ returned = NoResult
    /\ lastcall = NoCall
    /\ ma_messages = <<>>
    /\ ma_similarity = NoSimilarity
    /\ fn_in = NoInput
    /\ fn_out = NoOutput
    /\ workers = NoWorkers
    /\ processed_messages = <<>>
    /\ self_categories = LocalCategories

\* analyzer.process_message(rec)
ProcessMessage(rec) ==
    /\ Len(messages) < MaxStore
    /\ lastcall' = [op |-> "process_message", args |-> <<rec>>]
    /\ IF Raises(rec)
       THEN /\ returned' = [raised |-> TRUE, value |-> <<>>]
            /\ UNCHANGED <<messages, word_frequency>>
       ELSE \E o \in ProcessOutcomes(messages, word_frequency, rec) :
                /\ messages' = o.messages
                /\ word_frequency' = o.word_frequency
                /\ returned' = [raised |-> FALSE, value |-> <<o.message>>]
    /\ UNCHANGED <<ma_messages, ma_similarity, fn_in, fn_out, workers,
                   processed_messages, self_categories>>

\* analyzer.batch_process_messages(batch)
BatchProcessMessages(batch) ==
    /\ Len(messages) + Len(batch) <= MaxStore
    /\ lastcall' = [op |-> "batch_process_messages", args |-> batch]
    /\ \E o \in BatchOutcomes(messages, word_frequency, batch, 1, <<>>) :
           /\ messages' = o.messages
           /\ word_frequency' = o.word_frequency
           /\ returned' = [raised |-> FALSE, value |-> o.processed]
    /\ UNCHANGED <<ma_messages, ma_similarity, fn_in, fn_out, workers,
                   processed_messages, self_categories>>

\* analyzer.find_similar_tickets(message, top_k)
FindSimilarTickets(message, top_k) ==
    /\ lastcall' = [op |-> "find_similar_tickets", args |-> <<message, top_k>>]
    /\ \E similar \in SimilarTicketResults(messages, message, top_k) :
           returned' = [raised |-> FALSE, value |-> similar]
    /\ UNCHANGED <<messages, word_frequency, ma_messages, ma_similarity, fn_in, fn_out,
                   workers, processed_messages, self_categories>>

Next ==
    \/ \E rec \in Records : ProcessMessage(rec)
    \/ \E batch \in Batches : BatchProcessMessages(batch)

Spec == Init /\ [][Next]_vars

NextQuery ==
    \/ \E rec \in HashedRecords : ProcessMessage(rec)
    \/ \E message \in QueryMessages, top_k \in TopKInputs : FindSimilarTickets(message, top_k)

SpecQuery == Init /\ [][NextQuery]_vars

(***************************************************************************)
(* The categorizers as pure functions: one text in, the three analyzers'   *)
(* answers out.                                                            *)
(***************************************************************************)
MaxWords == 2

\* nine words, a URL with a fragment, which the two URL patterns cut differently,
\* and two URLs that a newline and a vertical tab end
CatWords ==
    {"bug", "feature", "help", "urgent", "lunch", "today", "deploy", "info", "DOWN!",
     "http://x#bug", "http://x\nbug", "http://x" \o VerticalTab \o "bug"}

\* the texts of 0..n words of CatWords, separated by single spaces
RECURSIVE TextsUpTo(_)
TextsUpTo(n) ==
    IF n = 0 THEN {""}
    ELSE LET shorter == TextsUpTo(n - 1)
         IN  shorter \cup CatWords \cup {t \o " " \o w : t \in shorter \ {""}, w \in CatWords}

CatTexts == TextsUpTo(MaxWords)

InitCategorize ==
    /\ messages = <<>>
    /\ word_frequency = <<>>
    /\ returned = NoResult
    /\ lastcall = NoCall
    /\ ma_messages = <<>>
    /\ ma_similarity = NoSimilarity
    /\ fn_in \in {[op |-> "categorize_message", text |-> t] : t \in CatTexts}
    /\ fn_out = NoOutput
    /\ workers = NoWorkers
    /\ processed_messages = <<>>
    /\ self_categories = LocalCategories

Categorize ==
    /\ fn_in.op = "categorize_message"
    /\ ~fn_out.done
    /\ fn_out' = [done |-> TRUE,
                  local |-> categorize_message(fn_in.text),
                  ma |-> ma_categorize_message(fn_in.text),
                  simple |-> simple_categorize_message(fn_in.text)]
    /\ UNCHANGED <<messages, word_frequency, returned, lastcall, ma_messages,
                   ma_similarity, fn_in, workers, processed_messages, self_categories>>

SpecCategorize == InitCategorize /\ [][Categorize]_vars

(***************************************************************************)
(* The priority scorer as a pure function                                  *)
(***************************************************************************)
MaxReactions == 5

\* the configured names and one name that is not configured (None takes the same
\* path through dict.get)
CategoryInputs == {LocalCategories[i].name : i \in 1..Len(LocalCategories)} \cup {"unconfigured"}

\* no timestamp; an hour in the future; now; 3, 12 and 30 hours ago
TimestampInputs == {None, Some(Now + 1), Some(Now), Some(Now - 3), Some(Now - 12),
                    Some(Now - 30)}

ReactionInputs == {None} \cup {Some([i \in 1..n |-> "eyes"]) : n \in 0..MaxReactions}

InitPriority ==
    /\ messages = <<>>
    /\ word_frequency = <<>>
    /\ returned = NoResult
    /\ lastcall = NoCall
    /\ ma_messages = <<>>
    /\ ma_similarity = NoSimilarity
    /\ fn_in \in {[op |-> "calculate_priority_score", text |-> t, category |-> c,
                   timestamp |-> ts, reactions |-> r] :
                     t \in PriorityTexts, c \in CategoryInputs, ts \in TimestampInputs,
                     r \in ReactionInputs}
    /\ fn_out = NoOutput
    /\ workers = NoWorkers
    /\ processed_messages = <<>>
    /\ self_categories = LocalCategories

\* categorize_message(text) and calculate_priority_score(message) on one message,
\* and the scores MessageAnalyzer and SimpleMessageAnalyzer give the same message
ScorePriority ==
    /\ fn_in.op = "calculate_priority_score"
    /\ ~fn_out.done
    /\ fn_out' = [done |-> TRUE,
                  category |-> Categorized(fn_in.text).category,
                  scores |-> Categorized(fn_in.text).scores,
                  confidence |-> Categorized(fn_in.text).confidence,
                  priority_score |-> calculate_priority_score(fn_in.text, fn_in.category,
                                         fn_in.timestamp, fn_in.reactions),
                  ma |-> MAScoreOutcome(fn_in.text, fn_in.category, fn_in.timestamp,
                                        fn_in.reactions),
                  simple |-> simple_calculate_priority(fn_in.text, fn_in.category)]
    /\ UNCHANGED <<messages, word_frequency, returned, lastcall, ma_messages,
                   ma_similarity, fn_in, workers, processed_messages, self_categories>>

SpecPriority == InitPriority /\ [][ScorePriority]_vars

\* preprocess_text on its own, and on its own result.  The texts are made of up to
\* MaxTokens pieces: letters of both cases, single and double spaces, punctuation
\* that is kept and punctuation that is replaced, a mention of each kind, an emoji,
\* a URL, and the letter U+0130.
MaxTokens == 3

PreTokens == {"a", "Bug", " ", "  ", ":", "-", "!", ",", "<@U1>", "<#C0|g>", ":ok:",
              "http://x", DottedI, "\t", "\n", VerticalTab, Ch(Separators, 1)}

RECURSIVE TokenTexts(_)
TokenTexts(n) ==
    IF n = 0 THEN {""}
    ELSE LET shorter == TokenTexts(n - 1)
         IN  shorter \cup {t \o k : t \in shorter, k \in PreTokens}

InitPreprocess ==
    /\ messages = <<>>
    /\ word_frequency = <<>>
    /\ returned = NoResult
    /\ lastcall = NoCall
    /\ ma_messages = <<>>
    /\ ma_similarity = NoSimilarity
    /\ fn_in \in {[op |-> "preprocess_text", text |-> t] : t \in TokenTexts(MaxTokens)}
    /\ fn_out = NoOutput
    /\ workers = NoWorkers
    /\ processed_messages = <<>>
    /\ self_categories = LocalCategories

\* once = preprocess_text(text), then twice = preprocess_text(once)
Preprocess ==
    /\ fn_in.op = "preprocess_text"
    /\ ~fn_out.done
    /\ \E once \in {preprocess_text(fn_in.text)} :
           fn_out' = [done |-> TRUE, once |-> once, twice |-> preprocess_text(once)]
    /\ UNCHANGED <<messages, word_frequency, returned, lastcall, ma_messages,
                   ma_similarity, fn_in, workers, processed_messages, self_categories>>

SpecPreprocess == InitPreprocess /\ [][Preprocess]_vars

(***************************************************************************)
(* MessageAnalyzer (src/src/message_analyzer.py)                           *)
(*                                                                         *)
(* The sentence embedding model and fuzz.ratio are libraries: what they    *)
(* answer for two different texts is an input, ma_similarity, fixed for a  *)
(* run, in thousandths, already blended 0.7 / 0.3.  Two equal texts blend  *)
(* to 1.0.                                                                 *)
(***************************************************************************)
\* combined_similarity of two preprocessed texts
Blend(sim, a, b) == IF a = b THEN 1000 ELSE sim[{a, b}]

\* combined_similarity of two raw texts
CombinedSimilarity(sim, text1, text2) ==
    Blend(sim, MAPreprocessed(text1), MAPreprocessed(text2))

\* _extract_key_phrases(text, 3): the first three pairs of neighbouring words that
\* are both longer than 3 characters
RECURSIVE KeyPhrasesFrom(_, _)
KeyPhrasesFrom(words, i) ==
    IF i > Len(words) - 1 THEN <<>>
    ELSE (IF Len(words[i]) > 3 /\ Len(words[i + 1]) > 3
             /\ Len(words[i]) + 1 + Len(words[i + 1]) > 6
          THEN <<words[i] \o " " \o words[i + 1]>> ELSE <<>>)
         \o KeyPhrasesFrom(words, i + 1)
extract_key_phrases(text, max_phrases) ==
    LET phrases == KeyPhrasesFrom(Split(text), 1)
    IN  SubSeq(phrases, 1, Min(max_phrases, Len(phrases)))

MAKeyPhraseTable ==
    {<<t, extract_key_phrases(MAPreprocessed(t), 3)>> : t \in MATableTexts}
MAKeyPhrases(text) == Lookup(MAKeyPhraseTable, text)

\* lines 206-215: the entry of one stored message whose combined similarity to
\* the query is combined, or nothing when it is not above 0.3
MACandidate(existing, combined) ==
    IF combined > 300
    THEN <<[ticket_id |-> existing.id,
            similarity_score |-> combined,
            category |-> existing.category,
            key_phrases |-> MAKeyPhrases(existing.text)]>>
    ELSE <<>>

RECURSIVE MASimilaritiesFrom(_, _, _, _)
MASimilaritiesFrom(sim, store, message, i) ==
    IF i > Len(store) THEN <<>>
    ELSE (IF store[i].id = message.id THEN <<>>
          ELSE MACandidate(store[i],
                           CombinedSimilarity(sim, message.text, store[i].text)))
         \o MASimilaritiesFrom(sim, store, message, i + 1)

\* MessageAnalyzer.find_similar_tickets
ma_find_similar_tickets(sim, store, message, top_k) ==
    IF store = <<>> THEN <<>>
    ELSE SliceTo(SortDesc(MASimilaritiesFrom(sim, store, message, 1)), top_k)

\* MessageAnalyzer.process_message raises out of float() for a ts that is no number,
\* and out of re.sub for a text that is no string
MARaises(rec) == rec.ts.kind = "badstr" \/ IsNone(rec.text)

\* the SlackMessage of MessageAnalyzer.process_message with its category set and
\* its priority scored
MAScoredMessage(id, text, timestamp, reactions, category) ==
    [id |-> id,
     text |-> text,
     timestamp |-> timestamp,
     reactions |-> reactions,
     category |-> category,
     priority_score |-> ma_calculate_priority_score(text, category, timestamp, reactions)]

\* the similarity search for the message m
MAWithSimilar(sim, store, m) ==
    WithSimilar(m, ma_find_similar_tickets(sim, store, m, DefaultTopK))

\* MessageAnalyzer.process_message on a record that does not raise: the new message
ma_process_message(sim, store, rec) ==
    MAWithSimilar(sim, store,
        MAScoredMessage(IF IsNone(rec.id) THEN HashId(Val(rec.text)) ELSE Val(rec.id),
                        Val(rec.text),
                        IF rec.ts.kind = "missing" THEN Now ELSE rec.ts.val,
                        IF IsNone(rec.reactions) THEN <<>> ELSE Val(rec.reactions),
                        MACategorized(Val(rec.text)).category))

\* the loop of MessageAnalyzer.batch_process_messages from record i on; a record
\* that raises is skipped, the message m of another one is appended
RECURSIVE MABatchOutcome(_, _, _, _, _)
RECURSIVE MABatchAppend(_, _, _, _, _, _)
MABatchAppend(sim, store, batch, i, processed, m) ==
    MABatchOutcome(sim, Append(store, m), batch, i + 1, Append(processed, m))

MABatchOutcome(sim, store, batch, i, processed) ==
    IF i > Len(batch) THEN [messages |-> store, processed |-> processed]
    ELSE IF MARaises(batch[i]) THEN MABatchOutcome(sim, store, batch, i + 1, processed)
    ELSE MABatchAppend(sim, store, batch, i, processed,
                       ma_process_message(sim, store, batch[i]))

MATexts == {Text1, Text2}
SimilarityLevels == {250, 650}
MARecords == [id : IdInputs, text : {Some(t) : t \in MATexts} \cup {None}, ts : TsInputs,
              reactions : {None}]
MABatchRecords == {r \in MARecords : r.ts.kind \in {"missing", "badstr"}}
MABatches == SeqsUpTo(MABatchRecords, MaxBatch)

InitMA ==
    /\ messages = <<>>
    /\ word_frequency = <<>>
    /\ returned = NoResult
    /\ lastcall = NoCall
    /\ ma_messages = <<>>
    /\ ma_similarity \in [{{MAPreprocessed(Text1), MAPreprocessed(Text2)}} -> SimilarityLevels]
    /\ fn_in = NoInput
    /\ fn_out = NoOutput
    /\ workers = NoWorkers
    /\ processed_messages = <<>>
    /\ self_categories = LocalCategories

\* analyzer.process_message(rec) on a MessageAnalyzer
MAProcessMessage(rec) ==
    /\ Len(ma_messages) < MaxStore
    /\ lastcall' = [op |-> "ma_process_message", args |-> <<rec>>]
    /\ IF MARaises(rec)
       THEN /\ returned' = [raised |-> TRUE, value |-> <<>>]
            /\ UNCHANGED ma_messages
       ELSE \E m \in {ma_process_message(ma_similarity, ma_messages, rec)} :
                /\ ma_messages' = Append(ma_messages, m)
                /\ returned' = [raised |-> FALSE, value |-> <<m>>]
    /\ UNCHANGED <<messages, word_frequency, ma_similarity, fn_in, fn_out, workers,
                   processed_messages, self_categories>>

\* analyzer.batch_process_messages(batch) on a MessageAnalyzer
MABatchProcessMessages(batch) ==
    /\ Len(ma_messages) + Len(batch) <= MaxStore
    /\ lastcall' = [op |-> "ma_batch_process_messages", args |-> batch]
    /\ \E o \in {MABatchOutcome(ma_similarity, ma_messages, batch, 1, <<>>)} :
           /\ ma_messages' = o.messages
           /\ returned' = [raised |-> FALSE, value |-> o.processed]
    /\ UNCHANGED <<messages, word_frequency, ma_similarity, fn_in, fn_out, workers,
                   processed_messages, self_categories>>

NextMA ==
    \/ \E rec \in MARecords : MAProcessMessage(rec)
    \/ \E batch \in MABatches : MABatchProcessMessages(batch)

SpecMA == InitMA /\ [][NextMA]_vars

(***************************************************************************)
(* The read operations of LocalMessageAnalyzer: categorize_message called  *)
(* on its own, get_analytics_data, generate_automation_suggestions and     *)
(* export_data.  user and channel are not part of the modelled message, so *)
(* top_users, top_channels and the two export columns are left out.        *)
(***************************************************************************)
\* The analyzer object: the three attributes of LocalMessageAnalyzer.  Self is
\* the analyzer of the state, FreshAnalyzer the analyzer as __init__ leaves it.
Self == [categories |-> self_categories, messages |-> messages,
         word_frequency |-> word_frequency]
FreshAnalyzer == [categories |-> LocalCategories, messages |-> <<>>,
                  word_frequency |-> <<>>]

\* the scores that the texts of store[k..] give category c
RECURSIVE CarriedScore(_, _, _)
CarriedScore(store, k, c) ==
    IF k > Len(store) THEN 0
    ELSE Categorized(store[k].text).scores[c] + CarriedScore(store, k + 1, c)

\* categorize_message with category_scores kept on the analyzer and never reset:
\* the scores of a call start from what the processed messages left there
MethodCategorizeAccumulating(self, text) ==
    LET own == CategoryScores(self.categories, Preprocessed(text))
    IN  ClassifyScores(self.categories,
                       [c \in 1..Len(self.categories) |->
                           own[c] + CarriedScore(self.messages, 1, c)],
                       5)

\* self.categorize_message(text), lines 97-129: category_scores is a local dict
\* filled anew from self.categories and the preprocessed text; the method reads
\* no other attribute of the analyzer and assigns none.  (CategorizeTable holds
\* the results under the configuration of __init__.)
MethodCategorize(self, text) ==
    IF self.categories = LocalCategories THEN Categorized(text)
    ELSE Classify(self.categories, Preprocessed(text), 5)

\* the count with the upper end left out: lo < p < hi
CountPriorityBelow(store, lo, hi) ==
    Cardinality({i \in 1..Len(store) :
                    lo < store[i].priority_score /\ store[i].priority_score < hi})

\* the number of stored messages whose priority score p has lo < p <= hi, for
\* floats lo and hi
CountPriority(store, lo, hi) ==
    Cardinality({i \in 1..Len(store) :
                    lo < store[i].priority_score /\ store[i].priority_score <= hi})

\* the number of stored messages less than 86400 seconds old
CountRecent(store) == Cardinality({i \in 1..Len(store) : Now - store[i].timestamp < 24})

\* sum(msg.priority_score for msg in store[i:]), the float sum from 0
SumPriority(store, i) ==
    FSumFrom([k \in 1..Len(store) |-> store[k].priority_score], i, 0)

\* Counter(msg.category for msg in self.messages), as a dict
CategoryCounts(store) ==
    [c \in {store[i].category : i \in 1..Len(store)} |->
        Cardinality({i \in 1..Len(store) : store[i].category = c})]

\* dict(counter.most_common(n)): n keys of largest count.  Which of several keys
\* of equal count are kept follows the insertion order, which the counter of the
\* model does not keep: every choice is possible
MostCommon(counter, n) ==
    IF Cardinality(DOMAIN counter) <= n THEN {counter}
    ELSE {[w \in kept |-> counter[w]] :
            kept \in {k \in SUBSET DOMAIN counter :
                        /\ Cardinality(k) = n
                        /\ \A w \in k, v \in DOMAIN counter \ k : counter[w] >= counter[v]}}

\* get_analytics_data: None for the {} of the empty store.  avg_priority is the
\* float sum of the scores over the count; the quotient is not taken.
get_analytics_data(store, counter) ==
    IF store = <<>> THEN {None}
    ELSE {Some([total_messages |-> Len(store),
                categories |-> CategoryCounts(store),
                priority_distribution |->
                    [high |-> CountPriority(store, FLit(70), FLit(100)),
                     medium |-> CountPriority(store, FLit(30), FLit(70)),
                     low |-> CountPriority(store, -1, FLit(30))],
                recent_messages |-> CountRecent(store),
                avg_priority |-> [num |-> SumPriority(store, 1), den |-> Len(store)],
                top_words |-> top]) : top \in MostCommon(counter, 10)}

\* categories.get(name, 0)
CountOf(categories, name) == IF name \in DOMAIN categories THEN categories[name] ELSE 0

\* generate_automation_suggestions: the 'category' fields of the suggestions, in
\* the order in which they are appended
automation_suggestions(store, categories) ==
    IF store = <<>> THEN <<>>
    ELSE (IF CountOf(categories, "access_request") >= 2 THEN <<"access_request">> ELSE <<>>)
         \o (IF CountOf(categories, "question") >= 3 THEN <<"question">> ELSE <<>>)
         \o (IF CountOf(categories, "bug_report") >= 2 THEN <<"bug_report">> ELSE <<>>)
         \o (IF CountOf(categories, "deployment") >= 1 THEN <<"deployment">> ELSE <<>>)
         \o (IF CountPriority(store, FLit(80), FLit(100)) > 0 THEN <<"urgent">> ELSE <<>>)

\* export_data: one row per stored message, in store order.  The csv format
\* has a header row, keeps a subset of the fields and returns "" (no row at
\* all) for the empty store; a value that holds a comma is put in quotes.
CsvValue(value) == IF Contains(value, ",") THEN "\"" \o value \o "\"" ELSE value

export_data(store, format_type) ==
    IF format_type = "json"
    THEN [i \in 1..Len(store) |->
             [id |-> store[i].id, text |-> store[i].text,
              timestamp |-> store[i].timestamp, reactions |-> store[i].reactions,
              category |-> store[i].category,
              priority_score |-> store[i].priority_score,
              similar_tickets |-> store[i].similar_tickets]]
    ELSE IF store = <<>> THEN <<>>
    ELSE <<[header |-> <<"id", "text", "timestamp", "category", "priority_score">>]>>
         \o [i \in 1..Len(store) |->
                [id |-> CsvValue(store[i].id), text |-> CsvValue(store[i].text),
                 timestamp |-> store[i].timestamp, category |-> CsvValue(store[i].category),
                 priority_score |-> store[i].priority_score]]

\* the texts categorize_message is called with on its own
CategorizeInputs == StoreTexts \cup {UrgentText, "see you at lunch"}
FormatInputs == {"json", "csv"}

\* analyzer.categorize_message(text)
CategorizeMessage(text) ==
    /\ lastcall' = [op |-> "categorize_message", args |-> <<text>>]
    /\ returned' = [raised |-> FALSE, value |-> <<MethodCategorize(Self, text)>>]
    /\ UNCHANGED <<messages, word_frequency, ma_messages, ma_similarity, fn_in, fn_out,
                   workers, processed_messages, self_categories>>

\* analyzer.get_analytics_data()
GetAnalyticsData ==
    /\ lastcall' = [op |-> "get_analytics_data", args |-> <<>>]
    /\ \E data \in get_analytics_data(messages, word_frequency) :
           returned' = [raised |-> FALSE, value |-> data]
    /\ UNCHANGED <<messages, word_frequency, ma_messages, ma_similarity, fn_in, fn_out,
                   workers, processed_messages, self_categories>>

\* analyzer.generate_automation_suggestions()
GenerateAutomationSuggestions ==
    /\ lastcall' = [op |-> "generate_automation_suggestions", args |-> <<>>]
    /\ returned' = [raised |-> FALSE,
                    value |-> automation_suggestions(messages, CategoryCounts(messages))]
    /\ UNCHANGED <<messages, word_frequency, ma_messages, ma_similarity, fn_in, fn_out,
                   workers, processed_messages, self_categories>>

\* analyzer.export_data(format_type)
ExportData(format_type) ==
    /\ lastcall' = [op |-> "export_data", args |-> <<format_type>>]
    /\ returned' = [raised |-> FALSE, value |-> export_data(messages, format_type)]
    /\ UNCHANGED <<messages, word_frequency, ma_messages, ma_similarity, fn_in, fn_out,
                   workers, processed_messages, self_categories>>

\* the batches given to an analyzer whose read operations are studied: records
\* without an id key
OpsBatches == SeqsUpTo(HashedRecords, MaxBatch)
\* the records process_message is called with: these, and one whose score lies
\* between two priority tiers
OpsRecords ==
    HashedRecords
    \cup {[id |-> None, text |-> Some(TierText), ts |-> [kind |-> "missing", val |-> 0],
           reactions |-> None]}

NextOps ==
    \/ \E rec \in OpsRecords : ProcessMessage(rec)
    \/ \E batch \in OpsBatches : BatchProcessMessages(batch)
    \/ \E message \in QueryMessages, top_k \in TopKInputs : FindSimilarTickets(message, top_k)
    \/ \E text \in CategorizeInputs : CategorizeMessage(text)
    \/ GetAnalyticsData
    \/ GenerateAutomationSuggestions
    \/ \E format_type \in FormatInputs : ExportData(format_type)

SpecOps == Init /\ [][NextOps]_vars

(***************************************************************************)
(* Two threads of the host application inside process_message on one       *)
(* analyzer. Neither analyzer takes a lock, so a thread can be preempted   *)
(* between any two statements; the statements that touch the store are the *)
(* guard of find_similar_tickets, its scan, the append and the counter     *)
(* update.                                                                 *)
(***************************************************************************)
MaxWorkerStore == 4

\* the records the threads ingest: a text, no id, no ts
WorkerRecords == {r \in HashedRecords : ~Raises(r)}

\* the threads between the start of their search and their append
InFlight == Cardinality({w \in WorkerIds : workers[w].pc \in {"scan", "append"}})

\* lines 228-253 and 196-197: the thread builds and scores its message, enters
\* find_similar_tickets and tests the length of the store
WorkerBegin(w, rec) ==
    /\ workers[w].pc = "idle"
    /\ Len(messages) + InFlight < MaxWorkerStore
    /\ workers' = [workers EXCEPT ![w] =
                      [pc |-> IF Len(messages) <= 1 THEN "append" ELSE "scan",
                       message |-> AnalyzedMessage(rec),
                       similar |-> <<>>,
                       seen |-> Len(messages)]]
    /\ UNCHANGED <<messages, word_frequency, returned, lastcall, ma_messages,
                   ma_similarity, fn_in, fn_out, processed_messages,
                   self_categories>>

\* lines 201-224: the scan of the store as it is now, the sort and the cut
WorkerScan(w) ==
    /\ workers[w].pc = "scan"
    /\ \E similar \in SimilarTicketResults(messages, workers[w].message, DefaultTopK) :
           workers' = [workers EXCEPT ![w].pc = "append",
                                      ![w].similar = similar,
                                      ![w].seen = Len(messages)]
    /\ UNCHANGED <<messages, word_frequency, returned, lastcall, ma_messages,
                   ma_similarity, fn_in, fn_out, processed_messages,
                   self_categories>>

\* line 259: self.messages.append(message)
WorkerAppend(w) ==
    /\ workers[w].pc = "append"
    /\ messages' = Append(messages, WithSimilar(workers[w].message, workers[w].similar))
    /\ workers' = [workers EXCEPT ![w].pc = "count"]
    /\ UNCHANGED <<word_frequency, returned, lastcall, ma_messages, ma_similarity,
                   fn_in, fn_out, processed_messages,
                   self_categories>>

\* lines 261-265: the counter update and the return; the thread keeps what it
\* returned until its next call
WorkerReturn(w) ==
    /\ workers[w].pc = "count"
    /\ word_frequency' = CounterUpdate(word_frequency, WordList(workers[w].message.text))
    /\ returned' = [raised |-> FALSE,
                    value |-> <<WithSimilar(workers[w].message, workers[w].similar)>>]
    /\ lastcall' = [op |-> "process_message", args |-> <<w>>]
    /\ workers' = [workers EXCEPT ![w].pc = "idle"]
    /\ UNCHANGED <<messages, ma_messages, ma_similarity, fn_in, fn_out, processed_messages,
                   self_categories>>

NextWorkers ==
    \E w \in WorkerIds :
        \/ \E rec \in WorkerRecords : WorkerBegin(w, rec)
        \/ WorkerScan(w)
        \/ WorkerAppend(w)
        \/ WorkerReturn(w)

SpecWorkers == Init /\ [][NextWorkers]_vars

(***************************************************************************)
(* SlackAnalyticsDashboard (src/src/dashboard.py): the update_dashboard    *)
(* callback over a MessageAnalyzer.  The sample data are the ten records   *)
(* of generate_sample_data with the ids "1" .. "10", the texts SampleTexts, *)
(* a numeric ts some hours back and one to three reactions; the reactions  *)
(* are written by name, the analyzer only counts them.                     *)
(***************************************************************************)
MaxUploads == 5

\* timedelta(hours=...) of the ts of each sample record
SampleHoursOld == <<1, 2, 3, 4, 5, 6, 12, 8, 10, 14>>

SampleReactions ==
    <<
       <<"rotating_light", "eyes", "fire">>,
       <<"question">>,
       <<"bug", "thumbsup">>,
       <<"bulb", "thumbsup", "crescent_moon">>,
       <<"wrench">>,
       <<"closed_lock_with_key">>,
       <<"loudspeaker", "thumbsup">>,
       <<"closed_lock_with_key", "bug">>,
       <<"scales", "question">>,
       <<"white_check_mark", "clipboard">>
    >>

generate_sample_data ==
    [i \in 1..Len(SampleTexts) |->
        [id |-> Some(ToString(i)),
         text |-> Some(SampleTexts[i]),
         ts |-> [kind |-> "num", val |-> Now - SampleHoursOld[i]],
         reactions |-> Some(SampleReactions[i])]]

\* list.sort(key=lambda x: x.priority_score, reverse=True): stable, so m goes
\* behind every message whose score is at least its own
RECURSIVE InsertByPriority(_, _)
InsertByPriority(sorted, m) ==
    IF sorted = <<>> THEN <<m>>
    ELSE IF Head(sorted).priority_score >= m.priority_score
         THEN <<Head(sorted)>> \o InsertByPriority(Tail(sorted), m)
         ELSE <<m>> \o sorted

RECURSIVE SortByPriorityFrom(_, _, _)
SortByPriorityFrom(list, i, acc) ==
    IF i > Len(list) THEN acc
    ELSE SortByPriorityFrom(list, i + 1, InsertByPriority(acc, list[i]))

\* the inputs of the callback that trigger it, and the filter each one selects
DashboardTriggers ==
    {"none", "upload-data", "filter-all", "filter-priority", "filter-urgent",
     "filter-questions"}

ActiveFilter(trigger) ==
    IF trigger = "filter-priority" THEN "priority"
    ELSE IF trigger = "filter-urgent" THEN "urgent"
    ELSE IF trigger = "filter-questions" THEN "questions"
    ELSE "all"

\* the branch of update_dashboard that processes the sample data: always with
\* upload contents, otherwise only while processed_messages is empty
Reprocesses(contents, processed) == contents \/ processed = <<>>

\* MessageAnalyzer.get_category_stats()['total_messages'], None for the empty dict
ma_total_messages(store) == IF store = <<>> THEN None ELSE Some(Len(store))

\* create_message_board: with the filter "all" the list sorted in place is
\* processed_messages itself; the other filters sort a new list
BoardSorted(processed, filter) ==
    IF filter = "all" THEN SortByPriorityFrom(processed, 1, <<>>) ELSE processed

\* what the callback shows: the total of create_quick_stats and the number of
\* messages the upload alert names
Shown(store, processed) ==
    [raised |-> FALSE,
     value |-> [total_messages |-> ma_total_messages(store),
                processed |-> Len(processed)]]

\* the pairs of preprocessed sample texts the similarity models are asked about
SamplePairs ==
    {{MAPreprocessed(SampleTexts[i]), MAPreprocessed(SampleTexts[j])} :
         i, j \in 1..Len(SampleTexts)} \ {{MAPreprocessed(SampleTexts[i])} : i \in 1..Len(SampleTexts)}

\* the similarity models answer every pair alike, or only the pairs with the
\* first sample text above the threshold
SampleSimilarities ==
    {[p \in SamplePairs |-> l] : l \in SimilarityLevels}
    \cup {[p \in SamplePairs |->
              IF MAPreprocessed(SampleTexts[1]) \in p THEN 650 ELSE 250]}

InitDashboard ==
    /\ messages = <<>>
    /\ word_frequency = <<>>
    /\ returned = NoResult
    /\ lastcall = NoCall
    /\ ma_messages = <<>>
    /\ ma_similarity \in SampleSimilarities
    /\ fn_in = NoInput
    /\ fn_out = NoOutput
    /\ workers = NoWorkers
    /\ processed_messages = <<>>
    /\ self_categories = LocalCategories

\* update_dashboard(contents_list, ...) triggered by the input trigger
UpdateDashboard(contents, trigger) ==
    /\ contents \/ trigger # "upload-data"
    /\ Len(ma_messages) + Len(generate_sample_data)
           <= MaxUploads * Len(generate_sample_data)
    /\ lastcall' = [op |-> "update_dashboard", args |-> <<contents, trigger>>]
    /\ \E o \in {IF Reprocesses(contents, processed_messages)
                 THEN MABatchOutcome(ma_similarity, ma_messages, generate_sample_data,
                                     1, <<>>)
                 ELSE [messages |-> ma_messages, processed |-> processed_messages]} :
           /\ ma_messages' = o.messages
           /\ processed_messages' = BoardSorted(o.processed, ActiveFilter(trigger))
           /\ returned' = Shown(o.messages, o.processed)
    /\ UNCHANGED <<messages, word_frequency, ma_similarity, fn_in, fn_out, workers,
                   self_categories>>

NextDashboard ==
    \E contents \in BOOLEAN, trigger \in DashboardTriggers :
        UpdateDashboard(contents, trigger)

SpecDashboard == InitDashboard /\ [][NextDashboard]_vars

(***************************************************************************)
(* Properties                                                              *)
(***************************************************************************)
LastMessage == messages[Len(messages)]

\* the similarity of two texts passes the test of find_similar_tickets
AboveThreshold(text1, text2) ==
    LET x == simple_similarity(text1, text2) IN 5 * x.num > x.den

\* a similarity list has an entry that points at ticket id
Listed(similar, id) == \E j \in 1..Len(similar) : similar[j].ticket_id = id

\* entry e of a similarity list describes the stored message m
EntryOf(e, m) == e.ticket_id = m.id /\ e.text_preview = TextPreview(m.text)

\* the scores all zero: the text hit no keyword and no pattern
NoHits(scores) == \A i \in DOMAIN scores : scores[i] = 0

\* the <<ticket_id, similarity_score>> pairs of a similarity list, in order
Ranking(similar) ==
    [j \in 1..Len(similar) |-> <<similar[j].ticket_id, similar[j].similarity_score>>]

\* C1: after process_message on a store that already held a message, every
\* earlier stored message with another id and a similarity above the threshold
\* is listed in the new message's similar_tickets (at most DefaultTopK
\* candidates, so nothing is truncated).
C1_SimilarStoredListed ==
    (lastcall.op = "process_message" /\ ~returned.raised /\ Len(messages) >= 2
     /\ Len(messages) - 1 <= DefaultTopK)
    => \A i \in 1..(Len(messages) - 1) :
           (messages[i].id # LastMessage.id
            /\ AboveThreshold(LastMessage.text, messages[i].text))
           => Listed(LastMessage.similar_tickets, messages[i].id)

\* C2: a text that hits no keyword and no pattern is categorized 'general' with
\* confidence exactly 0.1, by each of the three analyzers.
C2_FallbackConfidence ==
    (fn_in.op = "categorize_message" /\ fn_out.done)
    => /\ NoHits(fn_out.local.scores)
          => fn_out.local.category = "general" /\ 10 * fn_out.local.confidence = ConfUnit
       /\ NoHits(fn_out.ma.scores)
          => fn_out.ma.category = "general" /\ 10 * fn_out.ma.confidence = ConfUnit
       /\ NoHits(fn_out.simple.scores)
          => fn_out.simple.category = "general" /\ 10 * fn_out.simple.confidence = ConfUnit

\* C3: self-exclusion: no stored message lists its own id in its similar_tickets.
C3_SelfExclusion ==
    \A i \in 1..Len(messages) : ~Listed(messages[i].similar_tickets, messages[i].id)

\* a message was processed whose id an earlier, similar stored message carries,
\* and its similarity search ran and found others
C3_Witness ==
    \E i \in 1..Len(messages) :
        /\ i >= 3
        /\ messages[i].similar_tickets # <<>>
        /\ \E j \in 1..(i - 1) :
               /\ messages[j].id = messages[i].id
               /\ AboveThreshold(messages[i].text, messages[j].text)

\* C4: the confidence of categorize_message and the priority score of
\* calculate_priority_score lie in [0, 1], whatever the text, the category, the
\* age and the reactions.
C4_ScoresInUnitInterval ==
    (fn_in.op = "calculate_priority_score" /\ fn_out.done)
    => /\ fn_out.confidence \in 0..ConfUnit
       /\ 0 <= fn_out.priority_score /\ fn_out.priority_score <= FLit(100)

\* the signals of the scored message add up to more than 1.0
C4_Witness ==
    /\ fn_in.op = "calculate_priority_score"
    /\ fn_out.done
    /\ PrioritySum(fn_in.text, fn_in.category, fn_in.timestamp, fn_in.reactions)
           > FLit(100)
    /\ fn_out.priority_score = FLit(100)

\* C5: when several categories share the largest nonzero score, the one that
\* comes first in the configuration is returned.
C5_FirstMaxWins ==
    (fn_in.op = "categorize_message" /\ fn_out.done)
    => LET scores == fn_out.local.scores
       IN  \A i \in DOMAIN scores :
               (/\ scores[i] > 0
                /\ \A j \in DOMAIN scores : scores[j] <= scores[i]
                /\ \A j \in DOMAIN scores : j < i => scores[j] < scores[i])
               => fn_out.local.category = LocalCategories[i].name

\* a text was categorized on which two categories tie for the largest score
C5_Witness ==
    /\ fn_in.op = "categorize_message"
    /\ fn_out.done
    /\ LET scores == fn_out.local.scores
       IN  \E i, j \in DOMAIN scores :
               /\ i < j
               /\ scores[i] > 0
               /\ scores[i] = scores[j]
               /\ \A k \in DOMAIN scores : scores[k] <= scores[i]

\* B is found from A with top_k = ka  =>  A is found from B with top_k = kb,
\* with the same score
SymmetricAt(a, b, ka, kb) ==
    LET fromA == find_similar_tickets(messages, messages[a], ka)
        fromB == find_similar_tickets(messages, messages[b], kb)
    IN  \A j \in 1..Len(fromA) :
            EntryOf(fromA[j], messages[b])
            => \E l \in 1..Len(fromB) :
                   /\ EntryOf(fromB[l], messages[a])
                   /\ fromB[l].similarity_score = fromA[j].similarity_score

\* C6 as stated: for any store, any top_k and any stored A and B, if
\* find_similar_tickets(A, top_k) contains B with score s then
\* find_similar_tickets(B, top_k) contains A with score s.
C6_SymmetricForAnyTopK ==
    \A a, b \in 1..Len(messages) : \A k \in TopKInputs : SymmetricAt(a, b, k, k)

\* C6 amended: if find_similar_tickets(A, top_k) contains B with score s, then
\* find_similar_tickets(B, n), n the number of stored messages (nothing is cut
\* off), contains A with score s.
C6_SymmetricUntruncated ==
    \A a, b \in 1..Len(messages) : \A k \in TopKInputs :
        SymmetricAt(a, b, k, Len(messages))

\* a stored message was the query and another stored message was found for it
C6_Witness ==
    /\ lastcall.op = "find_similar_tickets"
    /\ \E a, b \in 1..Len(messages) :
           /\ a # b
           /\ lastcall.args[1].id = messages[a].id
           /\ lastcall.args[1].text = messages[a].text
           /\ \E j \in 1..Len(returned.value) : EntryOf(returned.value[j], messages[b])

\* the query of the last find_similar_tickets call is the only stored message
OnlySelfStored ==
    /\ Len(messages) = 1
    /\ lastcall.args[1].id = messages[1].id
    /\ lastcall.args[1].text = messages[1].text

\* C7: find_similar_tickets on an empty store, or on a store that holds only the
\* query message, returns the empty list and does not raise.
C7_EmptyOrOnlySelf ==
    (lastcall.op = "find_similar_tickets" /\ (messages = <<>> \/ OnlySelfStored))
    => ~returned.raised /\ returned.value = <<>>

C7_Witness == lastcall.op = "find_similar_tickets" /\ OnlySelfStored

\* the records of a batch that process_message accepts, in input order
Accepted(batch) == SelectSeq(batch, LAMBDA r : ~Raises(r))

\* C8: batch_process_messages skips the records that raise and returns exactly
\* the messages of the other records, in input order; they are the messages the
\* call appended to the store.
C8_BatchSkipsFailures ==
    lastcall.op = "batch_process_messages"
    => LET accepted == Accepted(lastcall.args)
           out == returned.value
       IN  /\ ~returned.raised
           /\ Len(out) = Len(accepted)
           /\ \A i \in 1..Len(out) :
                  /\ out[i].text = Val(accepted[i].text)
                  /\ out[i].id = IF IsNone(accepted[i].id) THEN HashId(out[i].text)
                                 ELSE Val(accepted[i].id)
           /\ Len(messages) >= Len(out)
           /\ SubSeq(messages, Len(messages) - Len(out) + 1, Len(messages)) = out

\* a batch in which a record that raises comes before one that is processed
C8_Witness ==
    /\ lastcall.op = "batch_process_messages"
    /\ \E i, j \in 1..Len(lastcall.args) :
           i < j /\ Raises(lastcall.args[i]) /\ ~Raises(lastcall.args[j])
    /\ returned.value # <<>>

\* C9: MessageAnalyzer.batch_process_messages on N records of which exactly one
\* has an unparsable ts (the others are well formed) returns N messages.
C9_BadTimestampStillProcessed ==
    (/\ lastcall.op = "ma_batch_process_messages"
     /\ \A i \in 1..Len(lastcall.args) : ~IsNone(lastcall.args[i].text)
     /\ Cardinality({i \in 1..Len(lastcall.args) : lastcall.args[i].ts.kind = "badstr"}) = 1)
    => Len(returned.value) = Len(lastcall.args)

\* C10: for a top_k >= 0, find_similar_tickets returns at most top_k entries, the
\* first top_k of the ranked list of all candidates (the stored messages with
\* another id and a similarity above the threshold).
C10_TopKPrefix ==
    (lastcall.op = "find_similar_tickets" /\ lastcall.args[2] >= 0)
    => /\ Len(returned.value) <= lastcall.args[2]
       /\ Ranking(returned.value)
          = Ranking(SliceTo(RankedSimilarities(messages, lastcall.args[1]),
                            lastcall.args[2]))

\* the list is ordered by score, largest first, and two entries of equal score
\* stand in the order in which their messages stand in store[1..n]
RankedStably(similar, store, n) ==
    \A j, l \in 1..Len(similar) :
        j < l =>
            /\ similar[j].similarity_score >= similar[l].similarity_score
            /\ similar[j].similarity_score = similar[l].similarity_score
               => \E p, q \in 1..n :
                      p < q /\ EntryOf(similar[j], store[p]) /\ EntryOf(similar[l], store[q])

\* C11: the list find_similar_tickets returns is ordered by similarity score
\* descending, and matches of exactly equal score appear in store insertion
\* order; stated of the list every stored message got when it was processed.
C11_RankedStably ==
    \A i \in 1..Len(messages) : RankedStably(messages[i].similar_tickets, messages, i - 1)

\* a stored message lists two different tickets with exactly the same score
C11_Witness ==
    \E i \in 1..Len(messages) :
        \E j, l \in 1..Len(messages[i].similar_tickets) :
            /\ j < l
            /\ messages[i].similar_tickets[j].similarity_score
               = messages[i].similar_tickets[l].similarity_score
            /\ messages[i].similar_tickets[j].ticket_id
               # messages[i].similar_tickets[l].ticket_id


\* what one call may do to the store: process_message appends the message it
\* returns (nothing when it raises), batch_process_messages appends the messages
\* it returns, in their order, and every other operation leaves the store as it is
StoreStep ==
    /\ lastcall'.op = "process_message"
       => messages' = IF returned'.raised THEN messages
                      ELSE Append(messages, returned'.value[1])
    /\ lastcall'.op = "batch_process_messages" => messages' = messages \o returned'.value
    /\ lastcall'.op \notin {"process_message", "batch_process_messages"}
       => messages' = messages

\* C13: the store is append-only and ordered by processing: every successful
\* process_message adds exactly its message at the end, a batch adds its
\* processed messages in order, and no other operation (search, categorization,
\* analytics, suggestions, export) removes, replaces or reorders an element.
C13_AppendOnly == [][StoreStep]_vars

\* a batch appended messages behind stored ones, or a read operation ran on a
\* store of several messages
C13_Witness ==
    \/ /\ lastcall.op = "batch_process_messages"
       /\ returned.value # <<>>
       /\ Len(messages) > Len(returned.value)
    \/ /\ lastcall.op \in {"get_analytics_data", "generate_automation_suggestions",
                           "export_data", "find_similar_tickets"}
       /\ Len(messages) >= 2

\* thread w has appended a message that it searched for on a store of at least
\* two messages, where find_similar_tickets does scan
Ingested(w) == workers[w].pc \in {"count", "idle"} /\ workers[w].seen >= 2

\* C14: when two threads run process_message on one analyzer, the search and the
\* append of each ingestion are atomic relative to the other: of two mutually
\* similar messages with distinct ids that the threads ingested, at least one
\* lists the other in its similar_tickets, whatever the interleaving.
C14_OneListsTheOther ==
    \A v, w \in WorkerIds :
        /\ v # w
        /\ Ingested(v)
        /\ Ingested(w)
        /\ workers[v].message.id # workers[w].message.id
        /\ AboveThreshold(workers[v].message.text, workers[w].message.text)
        => \/ Listed(workers[v].similar, workers[w].message.id)
           \/ Listed(workers[w].similar, workers[v].message.id)

\* the score categorize_message counted for the category called name
ScoreOf(scores, name) ==
    scores[CHOOSE i \in 1..Len(LocalCategories) : LocalCategories[i].name = name]

\* the message "production is down, URGENT!!! please help asap" was scored as
\* process_message scores it: under its own category, timestamped now, no reactions
UrgentExampleScored ==
    /\ fn_in.op = "calculate_priority_score"
    /\ fn_out.done
    /\ fn_in.text = UrgentText
    /\ fn_in.category = fn_out.category
    /\ fn_in.timestamp = Some(Now)
    /\ fn_in.reactions \in {None, Some(<<>>)}

\* C15: the text "production is down, URGENT!!! please help asap", fresh and
\* without reactions, is categorized 'urgent' (its urgent score is above those of
\* bug_report and question) with confidence > 0.5 and priority_score >= 0.8.
C15_UrgentExample ==
    UrgentExampleScored
    => /\ fn_out.category = "urgent"
       /\ ScoreOf(fn_out.scores, "urgent") > ScoreOf(fn_out.scores, "bug_report")
       /\ ScoreOf(fn_out.scores, "urgent") > ScoreOf(fn_out.scores, "question")
       /\ 2 * fn_out.confidence > ConfUnit
       /\ fn_out.priority_score >= FLit(80)

C15_Witness == UrgentExampleScored /\ fn_in.reactions = None

\* C16: preprocess_text is idempotent, preprocess_text(preprocess_text(t)) =
\* preprocess_text(t) for every text t, and it maps the empty text to the empty
\* text.
C16_Idempotent ==
    fn_in.op = "preprocess_text" /\ fn_out.done
    => /\ fn_out.twice = fn_out.once
       /\ fn_in.text = "" => fn_out.once = ""

\* the priority signals other than the length bonus are all absent: no boost for
\* the category, no timestamp, no reactions, and a normalized text without urgent
\* keyword, question mark or exclamation mark
OnlyLengthCounts ==
    /\ fn_in.op = "calculate_priority_score"
    /\ fn_out.done
    /\ PriorityBoost(fn_in.category) = 0
    /\ fn_in.timestamp = None
    /\ fn_in.reactions = None
    /\ \A i \in 1..Len(UrgentKeywords) :
           ~Contains(Preprocessed(fn_in.text), UrgentKeywords[i])
    /\ CountChar(Preprocessed(fn_in.text), "?") = 0
    /\ CountChar(Preprocessed(fn_in.text), "!") = 0

\* C17: the length bonus of LocalMessageAnalyzer.calculate_priority_score has two
\* tiers that do not add up: 0.2 for a normalized text of more than 200
\* characters, 0.1 for more than 100 and at most 200 characters, 0 otherwise.
\* Stated of the scores in which the length bonus is the only signal.
C17_LengthBonusTiers ==
    OnlyLengthCounts
    => fn_out.priority_score =
           IF Len(Preprocessed(fn_in.text)) > 200 THEN FLit(20)
           ELSE IF Len(Preprocessed(fn_in.text)) > 100 THEN FLit(10)
           ELSE 0

\* C18: LocalMessageAnalyzer.process_message never raises because of the ts field
\* and keeps the record's own time: a ts that is a number or a numeric string
\* gives the stored message the instant ts denotes, and the processing time is
\* taken only when ts is missing or cannot be parsed.
C18_KeepsRecordTime ==
    lastcall.op = "process_message" /\ ~IsNone(lastcall.args[1].text)
    => /\ ~returned.raised
       /\ returned.value[1].timestamp =
              IF lastcall.args[1].ts.kind \in {"num", "str"} THEN lastcall.args[1].ts.val
              ELSE Now

\* the similarity of two texts is at least the minimum threshold 0.2
AtLeastThreshold(text1, text2) ==
    \E x \in {simple_similarity(text1, text2)} : 5 * x.num >= x.den

\* C19: find_similar_tickets discards a candidate if and only if its score is
\* below the minimum threshold 0.2: every returned match scores at least 0.2, and
\* a stored message of another id that scores 0.2 or more, exactly 0.2 included,
\* is returned.  Stated of the calls on a store of two or more messages whose
\* result was not cut to top_k.
C19_ThresholdInclusive ==
    lastcall.op = "find_similar_tickets" /\ Len(messages) >= 2
    => /\ \A j \in 1..Len(returned.value) : returned.value[j].similarity_score >= 200
       /\ Len(returned.value) < lastcall.args[2]
          => \A i \in 1..Len(messages) :
                 /\ messages[i].id # lastcall.args[1].id
                 /\ AtLeastThreshold(lastcall.args[1].text, messages[i].text)
                 => Listed(returned.value, messages[i].id)

\* the minimum word length of a key phrase: both words are longer than this
MinWordLength == 3

\* phrase is two neighbouring words of the normalized text, both longer than the
\* minimum word length, joined by one space
IsBigramOf(phrase, text) ==
    \E j \in 1..(Len(WordList(text)) - 1) :
        /\ phrase = WordList(text)[j] \o " " \o WordList(text)[j + 1]
        /\ Len(WordList(text)[j]) > MinWordLength
        /\ Len(WordList(text)[j + 1]) > MinWordLength

\* C20: every returned similarity match carries at most 3 key phrases, and each
\* of them is a contiguous two-word sequence found in the normalized text of the
\* query and in that of the matched message, both words longer than the minimum
\* word length.  Stated of the matches every stored message got when processed.
C20_SharedBigrams ==
    \A i \in 1..Len(messages) :
        \A j \in 1..Len(messages[i].similar_tickets) :
            /\ Cardinality(messages[i].similar_tickets[j].key_phrases) <= 3
            /\ \A phrase \in messages[i].similar_tickets[j].key_phrases :
                   /\ IsBigramOf(phrase, messages[i].text)
                   /\ \E p \in 1..(i - 1) :
                          /\ EntryOf(messages[i].similar_tickets[j], messages[p])
                          /\ IsBigramOf(phrase, messages[p].text)

\* a score in which neither the recency bonus nor the length bonus takes part: no
\* timestamp, a normalized text of at most 100 characters
MarksAndReactionsScored ==
    /\ fn_in.op = "calculate_priority_score"
    /\ fn_out.done
    /\ fn_in.timestamp = None
    /\ Len(Preprocessed(fn_in.text)) <= 100

\* the number of reactions of the scored message (0 when it has none)
ReactionCount == IF IsNone(fn_in.reactions) THEN 0 ELSE Len(Val(fn_in.reactions))

\* C21: LocalMessageAnalyzer.calculate_priority_score returns min(1.0, sum of the
\* signals), each signal capped on its own: 0.2 once when any urgent term occurs,
\* min(0.1 * question marks, 0.3), min(0.05 * exclamation marks, 0.2), and
\* min(0.05 * n, 0.2) for n > 1 reactions, 0 for n <= 1.  The score is a float
\* sum: it is the float next to that hundredth.
C21_SignalsCapped ==
    MarksAndReactionsScored
    => FHundredths(fn_out.priority_score) =
           Min(100,
               FHundredths(PriorityBoost(fn_in.category))
               + (IF \E i \in 1..Len(UrgentKeywords) :
                        Contains(Preprocessed(fn_in.text), UrgentKeywords[i])
                  THEN 20 ELSE 0)
               + Min(10 * CountChar(Preprocessed(fn_in.text), "?"), 30)
               + Min(5 * CountChar(Preprocessed(fn_in.text), "!"), 20)
               + (IF ReactionCount > 1 THEN Min(5 * ReactionCount, 20) ELSE 0))

\* a text with several urgent terms and three exclamation marks was scored with
\* five reactions, under a category without boost
C21_Witness ==
    /\ MarksAndReactionsScored
    /\ fn_in.text = UrgentText
    /\ ReactionCount = 5
    /\ PriorityBoost(fn_in.category) = 0
    /\ FHundredths(fn_out.priority_score) = 55

\* the message was scored, and for MessageAnalyzer and SimpleMessageAnalyzer only
\* urgent terms and question marks count: a category without bonus, a timestamp
\* older than a day, no reactions, a normalized text of at most 100 characters
OnlyTermsAndQuestionsCount ==
    /\ fn_in.op = "calculate_priority_score"
    /\ fn_out.done
    /\ fn_in.category = "general"
    /\ fn_in.timestamp = Some(Now - 30)
    /\ fn_in.reactions = None
    /\ Len(MAPreprocessed(fn_in.text)) <= 100

\* C22: in MessageAnalyzer.calculate_priority_score and
\* SimpleMessageAnalyzer.calculate_priority the urgency increment (0.3) is added
\* exactly once when any urgent term occurs, however many occur, and the question
\* marks contribute at most 0.3.
C22_UrgencyOnceQuestionsCapped ==
    OnlyTermsAndQuestionsCount
    => /\ ~fn_out.ma.raised
       /\ FHundredths(fn_out.ma.value) =
              (IF \E i \in 1..Len(MAUrgentKeywords) :
                      Contains(MAPreprocessed(fn_in.text), MAUrgentKeywords[i])
               THEN 30 ELSE 0)
              + Min(10 * CountChar(MAPreprocessed(fn_in.text), "?"), 30)
       /\ FHundredths(fn_out.simple) =
              (IF \E i \in 1..Len(SimpleUrgentWords) :
                      Contains(Lower(fn_in.text), SimpleUrgentWords[i])
               THEN 30 ELSE 0)
              + Min(10 * CountChar(Lower(fn_in.text), "?"), 30)

\* the scored message carries no signal of its own: a category that neither
\* analyzer boosts, and a normalized text of at most 100 characters without urgent
\* term, question mark or exclamation mark
QuietMessageScored ==
    /\ fn_in.op = "calculate_priority_score"
    /\ fn_out.done
    /\ fn_in.category \in {"general", "unconfigured"}
    /\ PriorityBoost(fn_in.category) = 0
    /\ Len(Preprocessed(fn_in.text)) <= 100
    /\ \A i \in 1..Len(UrgentKeywords) :
           ~Contains(Preprocessed(fn_in.text), UrgentKeywords[i])
    /\ CountChar(Preprocessed(fn_in.text), "?") = 0
    /\ CountChar(Preprocessed(fn_in.text), "!") = 0

\* C23: calculate_priority_score never raises, and a missing optional field
\* contributes zero, in LocalMessageAnalyzer and in MessageAnalyzer: without
\* reactions (None or empty) there is no reaction bonus, without timestamp no
\* recency bonus.  So a message without signal of its own, without reactions, and
\* without timestamp or with one older than a day, scores 0.
C23_MissingFieldsScoreZero ==
    /\ fn_in.op = "calculate_priority_score" /\ fn_out.done => ~fn_out.ma.raised
    /\ QuietMessageScored
       /\ fn_in.reactions \in {None, Some(<<>>)}
       /\ fn_in.timestamp \in {None, Some(Now - 30)}
       => /\ fn_out.priority_score = 0
          /\ fn_out.ma.value = 0

\* every message of the store is still there, at its position, with the id, text,
\* category, priority_score and similar_tickets it had
StoredUntouched ==
    \A i \in 1..Len(messages) :
        /\ i <= Len(messages')
        /\ messages'[i].id = messages[i].id
        /\ messages'[i].text = messages[i].text
        /\ messages'[i].category = messages[i].category
        /\ messages'[i].priority_score = messages[i].priority_score
        /\ messages'[i].similar_tickets = messages[i].similar_tickets

\* C24: a stored message is never updated: its id, text, category, priority_score
\* and similar_tickets stay as they were under every later process_message,
\* batch_process_messages, get_analytics_data, generate_automation_suggestions
\* and export_data call; an earlier message's similar_tickets is not extended when
\* a later similar message arrives.
C24_StoredFrozen == [][StoredUntouched]_vars

\* a message was processed that lists a message stored before it
C24_Witness ==
    /\ lastcall.op \in {"process_message", "batch_process_messages"}
    /\ Len(messages) >= 3
    /\ LastMessage.similar_tickets # <<>>

\* the sum of the counts of a histogram
TotalOf(counts) ==
    Cardinality({p \in (DOMAIN counts) \X (1..MaxStore) : p[2] <= counts[p[1]]})

\* C25: in get_analytics_data the priority tiers partition the store: high +
\* medium + low = total_messages = the number of stored messages, and the counts
\* of the category histogram sum to total_messages too.
C25_TiersPartition ==
    lastcall.op = "get_analytics_data" /\ messages # <<>>
    => /\ returned.value[1].total_messages = Len(messages)
       /\ returned.value[1].priority_distribution.high
          + returned.value[1].priority_distribution.medium
          + returned.value[1].priority_distribution.low = Len(messages)
       /\ TotalOf(returned.value[1].categories) = Len(messages)

\* the analytics of a store that holds messages of two tiers and two categories,
\* one of them with a score between 0.7 and the next hundredth, counted high
C25_Witness ==
    /\ lastcall.op = "get_analytics_data"
    /\ Len(messages) >= 3
    /\ returned.value[1].priority_distribution.high >= 2
    /\ returned.value[1].priority_distribution.low >= 1
    /\ Cardinality(DOMAIN returned.value[1].categories) >= 2
    /\ \E i \in 1..Len(messages) :
           /\ FHundredths(messages[i].priority_score) = 70
           /\ messages[i].priority_score > FLit(70)

\* the score the claim gives the category config on the normalized text ptext
ClaimedScore(config, ptext) ==
    Cardinality({k \in 1..Len(config.keywords) : Contains(ptext, config.keywords[k])})
    + 2 * Cardinality({k \in 1..Len(config.patterns) : ReSearch(config.patterns[k], ptext)})

\* result is what the claim says of a categorizer configured with cats: the scores
\* are the claimed ones, the category returned carries the largest score, and a
\* positive largest score m gives the confidence min(m / 5.0, 1.0)
AsClaimed(result, cats, ptext) ==
    /\ \A i \in 1..Len(cats) : result.scores[i] = ClaimedScore(cats[i], ptext)
    /\ \E i \in 1..Len(cats) :
           /\ cats[i].name = result.category
           /\ \A j \in 1..Len(cats) : result.scores[j] <= result.scores[i]
           /\ result.scores[i] > 0
              => 5 * result.confidence = Min(result.scores[i] * ConfUnit, 5 * ConfUnit)

\* C26: categorize_message scores every configured category by (keywords found
\* as substrings of the normalized text) + 2 * (patterns that match), returns a
\* category of maximal score and, when that score is positive, the confidence
\* min(max_score / 5.0, 1.0); in LocalMessageAnalyzer and in MessageAnalyzer.
C26_ScoreMaxConfidence ==
    fn_in.op = "categorize_message" /\ fn_out.done
    => /\ AsClaimed(fn_out.local, LocalCategories, preprocess_text(fn_in.text))
       /\ AsClaimed(fn_out.ma, MACategories, ma_preprocess_text(fn_in.text))

\* a text was categorized that hits two keywords or a pattern of its category
\* and stays below confidence 1.0
C26_Witness ==
    /\ fn_in.op = "categorize_message"
    /\ fn_out.done
    /\ fn_out.local.category # "general"
    /\ \E i \in DOMAIN fn_out.local.scores : fn_out.local.scores[i] >= 2
    /\ fn_out.local.confidence < ConfUnit

\* C27: the id test removes only the query itself from the candidates: when the
\* same text is processed twice as two records without an id, the second is a new
\* entity and lists the stored first copy, with similarity 1.0.  Stated of the
\* copies processed on a store of two or more messages, where find_similar_tickets
\* does scan.
C27_EarlierCopyListed ==
    \A j \in 3..Len(messages) :
        \A i \in 1..(j - 1) :
            /\ messages[i].text = messages[j].text
            /\ messages[i].id = HashId(messages[i].text)
            /\ messages[j].id = HashId(messages[j].text)
            => \E k \in 1..Len(messages[j].similar_tickets) :
                   /\ EntryOf(messages[j].similar_tickets[k], messages[i])
                   /\ messages[j].similar_tickets[k].similarity_score = 1000

\* C28: process_message searches before it appends: the search of the i-th
\* processed message scans the i-1 messages stored before it, so every ticket_id
\* in a stored message's similar_tickets is the id of a message at a strictly
\* earlier store position, and differs from the message's own id.
C28_ListsOnlyEarlier ==
    \A i \in 1..Len(messages) :
        \A k \in 1..Len(messages[i].similar_tickets) :
            /\ messages[i].similar_tickets[k].ticket_id # messages[i].id
            /\ \E p \in 1..(i - 1) :
                   messages[p].id = messages[i].similar_tickets[k].ticket_id

\* a stored message lists both messages stored before it
C28_Witness ==
    \E i \in 1..Len(messages) :
        /\ Len(messages[i].similar_tickets) = 2
        /\ messages[i].similar_tickets[1].ticket_id = messages[2].id
        /\ messages[i].similar_tickets[2].ticket_id = messages[1].id
        /\ messages[1].id # messages[2].id

\* the word counter after the words of the messages list[i..] have been counted
RECURSIVE CountedFrom(_, _, _)
CountedFrom(counter, list, i) ==
    IF i > Len(list) THEN counter
    ELSE CountedFrom(CounterUpdate(counter, WordList(list[i].text)), list, i + 1)

\* what a call leaves of the records that raise: a process_message that raises
\* changes neither the store nor word_frequency; a batch adds to the store exactly
\* the messages it returns, in their order, and counts exactly their words
FailuresLeaveNoTrace ==
    /\ lastcall'.op = "process_message" /\ returned'.raised
       => messages' = messages /\ word_frequency' = word_frequency
    /\ lastcall'.op = "batch_process_messages"
       => /\ messages' = messages \o returned'.value
          /\ messages = <<>> => messages' = returned'.value
          /\ word_frequency' = CountedFrom(word_frequency, returned'.value, 1)

\* C29: a record whose processing raises leaves the engine state unchanged: it is
\* neither appended to the store nor counted in word_frequency, so the messages a
\* batch_process_messages call adds to the store are exactly, and in order, the
\* messages of the returned list (on a fresh analyzer the store is that list).
C29_FailuresLeaveNoTrace == [][FailuresLeaveNoTrace]_vars

\* a batch on a fresh analyzer whose first record raises and whose second is stored
C29_Witness ==
    /\ lastcall.op = "batch_process_messages"
    /\ Len(lastcall.args) = 2
    /\ Raises(lastcall.args[1])
    /\ Len(returned.value) = 1
    /\ messages = returned.value
    /\ word_frequency # <<>>

\* C30: after any update_dashboard callback the analyzer's store holds exactly
\* the messages of processed_messages, and the total shown from
\* get_category_stats is len(processed_messages).
C30_StoreIsProcessed ==
    lastcall.op = "update_dashboard" =>
        /\ Range(ma_messages) = Range(processed_messages)
        /\ Len(ma_messages) = Len(processed_messages)
        /\ returned.value.total_messages = Some(Len(processed_messages))

====
